---- MODULE Spec2Model ----
(***************************************************************************)
(* A model of json2tszod: the name allocator (lib/infer/naming.ts), the    *)
(* structural equality and merge engine (lib/infer/merge.ts), the          *)
(* inference engine (lib/infer/infer.ts), the parser wrapper               *)
(* (lib/infer/parse.ts), the generators and the formatter (lib/generate)   *)
(* and the converter hook (hooks/useConverter.ts).                         *)
(*                                                                         *)
(* Asynchronous code is modelled task by task: an action is one event-loop *)
(* task with the microtasks it leaves behind, a call records where it is   *)
(* suspended, and what a call awaits settles in an action of its own.      *)
(*                                                                         *)
(* Representation.  A JavaScript string is a sequence of one-character     *)
(* strings, so that toPascalCase, startsWith, trim and the ISO date        *)
(* pattern are computed character by character.  A JSON value is a record  *)
(* tagged by t; an object value keeps its entries in Object.keys order.    *)
(* An InferredType is a record tagged by kind, as in lib/infer/types.ts; a *)
(* PropertyMap is the sequence of its entries in insertion order.          *)
(***************************************************************************)
EXTENDS Integers, Sequences, FiniteSets, TLC

VARIABLES
  usedNames,    \* NameGenerator.usedNames of the instance under test
  returned,     \* that instance's generate calls since the last reset, in
                \* order: the segments passed and the string returned
  mergeIn,      \* the argument list handed to mergeTypes / mergeObjectTypes
  mergeOut,     \* what the merge call returned
  value,        \* inferType: the parsed JSON value of the latest invocation
  settings,     \* inferType: the InferSettings of the latest invocation
  inferResult,  \* inferType: the InferResult of the latest invocation
  nameGen,      \* the usedNames map of the NameGenerator the latest invocation built
  earlier,      \* an earlier invocation (arguments and result) kept for comparison
  abortRef,     \* useConverter: abortRef.current
  result,       \* useConverter: the ConvertResult state
  runs,         \* useConverter: the convert invocations suspended at their await
  finished,     \* useConverter: the runs that resumed, and whether each committed
  callIn,       \* a parser or generator call on its own: the function and its
                \* arguments; in the converter hook, the latest convert invocation
  callOut,      \* what that call returned: for a generator, its promise
  prettierPromise, \* formatter.ts: the module-level cache of loadPrettier
  calls         \* the calls of formatTypeScript and of the generators made so
                \* far, in the order they were made

vars == <<usedNames, returned, mergeIn, mergeOut, value, settings, inferResult,
          nameGen, earlier, abortRef, result, runs, finished, callIn, callOut,
          prettierPromise, calls>>

namesVars == <<usedNames, returned>>
mergeVars == <<mergeIn, mergeOut>>
inferVars == <<value, settings, inferResult, nameGen, earlier>>
convVars  == <<abortRef, result, runs, finished>>
callVars  == <<callIn, callOut, prettierPromise, calls>>

----------------------------------------------------------------------------
(* JavaScript strings as character sequences *)

Str1(a) == <<a>>

\* the characters of a string literal of the source
Chars(str) == [i \in 1..Len(str) |-> SubSeq(str, i, i)]

LowerLetters == <<"a","b","c","d","e","f","g","h","i","j","k","l","m",
                  "n","o","p","q","r","s","t","u","v","w","x","y","z">>
UpperLetters == <<"A","B","C","D","E","F","G","H","I","J","K","L","M",
                  "N","O","P","Q","R","S","T","U","V","W","X","Y","Z">>
DigitChars   == {"0","1","2","3","4","5","6","7","8","9"}

IsLower(c) == \E i \in 1..Len(LowerLetters) : LowerLetters[i] = c
IsUpper(c) == \E i \in 1..Len(UpperLetters) : UpperLetters[i] = c
IsDigit(c) == c \in DigitChars

RECURSIVE Concat(_)
Concat(ss) == IF ss = <<>> THEN <<>> ELSE Head(ss) \o Concat(Tail(ss))

RECURSIVE Join(_, _)
Join(ss, sep) ==
  IF ss = <<>> THEN <<>>
  ELSE IF Len(ss) = 1 THEN ss[1]
  ELSE ss[1] \o sep \o Join(Tail(ss), sep)

(* The case mappings of String.prototype.toUpperCase and toLowerCase outside *)
(* a-z and A-Z, as Unicode 17.0 defines them.  First the Basic Multilingual  *)
(* Plane: the characters that change and, at the same index, what each       *)
(* changes to (one character or several).  A character that a string of this *)
(* notation cannot hold is written as its \uXXXX escape.                     *)
UpperFrom == <<
  "µ", "ß", "à", "á", "â", "ã", "ä", "å", "æ", "ç", "è", "é", "ê", "ë",
  "ì", "í", "î", "ï", "ð", "ñ", "ò", "ó", "ô", "õ", "ö", "ø", "ù", "ú",
  "û", "ü", "ý", "þ", "ÿ", "\\u0101", "\\u0103", "\\u0105", "\\u0107",
  "\\u0109", "\\u010B", "\\u010D", "\\u010F", "\\u0111", "\\u0113",
  "\\u0115", "\\u0117", "\\u0119", "\\u011B", "\\u011D", "\\u011F",
  "\\u0121", "\\u0123", "\\u0125", "\\u0127", "\\u0129", "\\u012B",
  "\\u012D", "\\u012F", "\\u0131", "\\u0133", "\\u0135", "\\u0137",
  "\\u013A", "\\u013C", "\\u013E", "\\u0140", "\\u0142", "\\u0144",
  "\\u0146", "\\u0148", "\\u0149", "\\u014B", "\\u014D", "\\u014F",
  "\\u0151", "\\u0153", "\\u0155", "\\u0157", "\\u0159", "\\u015B",
  "\\u015D", "\\u015F", "\\u0161", "\\u0163", "\\u0165", "\\u0167",
  "\\u0169", "\\u016B", "\\u016D", "\\u016F", "\\u0171", "\\u0173",
  "\\u0175", "\\u0177", "\\u017A", "\\u017C", "\\u017E", "\\u017F", "ƀ",
  "ƃ", "ƅ", "ƈ", "ƌ", "ƒ", "ƕ", "ƙ", "ƚ", "ƛ", "ƞ", "ơ", "ƣ", "ƥ", "ƨ",
  "ƭ", "ư", "ƴ", "ƶ", "ƹ", "ƽ", "ƿ", "ǅ", "ǆ", "ǈ", "ǉ", "ǋ", "ǌ", "ǎ",
  "ǐ", "ǒ", "ǔ", "ǖ", "ǘ", "ǚ", "ǜ", "ǝ", "ǟ", "ǡ", "ǣ", "ǥ", "ǧ", "ǩ",
  "ǫ", "ǭ", "ǯ", "ǰ", "ǲ", "ǳ", "ǵ", "ǹ", "ǻ", "ǽ", "ǿ", "\\u0201",
  "\\u0203", "\\u0205", "\\u0207", "\\u0209", "\\u020B", "\\u020D",
  "\\u020F", "\\u0211", "\\u0213", "\\u0215", "\\u0217", "\\u0219",
  "\\u021B", "\\u021D", "\\u021F", "\\u0223", "\\u0225", "\\u0227",
  "\\u0229", "\\u022B", "\\u022D", "\\u022F", "\\u0231", "\\u0233",
  "\\u023C", "\\u023F", "\\u0240", "\\u0242", "\\u0247", "\\u0249",
  "\\u024B", "\\u024D", "\\u024F", "\\u0250", "\\u0251", "\\u0252",
  "\\u0253", "\\u0254", "\\u0256", "\\u0257", "\\u0259", "\\u025B",
  "\\u025C", "\\u0260", "\\u0261", "\\u0263", "\\u0264", "\\u0265",
  "\\u0266", "\\u0268", "\\u0269", "\\u026A", "\\u026B", "\\u026C",
  "\\u026F", "\\u0271", "\\u0272", "\\u0275", "\\u027D", "ʀ", "ʂ", "ʃ",
  "ʇ", "ʈ", "ʉ", "ʊ", "ʋ", "ʌ", "ʒ", "ʝ", "ʞ", "\\u0345", "\\u0371",
  "\\u0373", "\\u0377", "\\u037B", "\\u037C", "\\u037D", "ΐ", "ά", "έ",
  "ή", "ί", "ΰ", "α", "β", "γ", "δ", "ε", "ζ", "η", "θ", "ι", "κ", "λ",
  "μ", "ν", "ξ", "ο", "π", "ρ", "ς", "σ", "τ", "υ", "φ", "χ", "ψ", "ω",
  "ϊ", "ϋ", "ό", "ύ", "ώ", "ϐ", "ϑ", "ϕ", "ϖ", "ϗ", "ϙ", "ϛ", "ϝ", "ϟ",
  "ϡ", "ϣ", "ϥ", "ϧ", "ϩ", "ϫ", "ϭ", "ϯ", "ϰ", "ϱ", "ϲ", "ϳ", "ϵ", "ϸ",
  "ϻ", "\\u0430", "\\u0431", "\\u0432", "\\u0433", "\\u0434", "\\u0435",
  "\\u0436", "\\u0437", "\\u0438", "\\u0439", "\\u043A", "\\u043B",
  "\\u043C", "\\u043D", "\\u043E", "\\u043F", "\\u0440", "\\u0441",
  "\\u0442", "\\u0443", "\\u0444", "\\u0445", "\\u0446", "\\u0447",
  "\\u0448", "\\u0449", "\\u044A", "\\u044B", "\\u044C", "\\u044D",
  "\\u044E", "\\u044F", "\\u0450", "\\u0451", "\\u0452", "\\u0453",
  "\\u0454", "\\u0455", "\\u0456", "\\u0457", "\\u0458", "\\u0459",
  "\\u045A", "\\u045B", "\\u045C", "\\u045D", "\\u045E", "\\u045F",
  "\\u0461", "\\u0463", "\\u0465", "\\u0467", "\\u0469", "\\u046B",
  "\\u046D", "\\u046F", "\\u0471", "\\u0473", "\\u0475", "\\u0477",
  "\\u0479", "\\u047B", "\\u047D", "\\u047F", "ҁ", "ҋ", "ҍ", "ҏ", "ґ", "ғ",
  "ҕ", "җ", "ҙ", "қ", "ҝ", "ҟ", "ҡ", "ң", "ҥ", "ҧ", "ҩ", "ҫ", "ҭ", "ү",
  "ұ", "ҳ", "ҵ", "ҷ", "ҹ", "һ", "ҽ", "ҿ", "ӂ", "ӄ", "ӆ", "ӈ", "ӊ", "ӌ",
  "ӎ", "ӏ", "ӑ", "ӓ", "ӕ", "ӗ", "ә", "ӛ", "ӝ", "ӟ", "ӡ", "ӣ", "ӥ", "ӧ",
  "ө", "ӫ", "ӭ", "ӯ", "ӱ", "ӳ", "ӵ", "ӷ", "ӹ", "ӻ", "ӽ", "ӿ", "\\u0501",
  "\\u0503", "\\u0505", "\\u0507", "\\u0509", "\\u050B", "\\u050D",
  "\\u050F", "\\u0511", "\\u0513", "\\u0515", "\\u0517", "\\u0519",
  "\\u051B", "\\u051D", "\\u051F", "\\u0521", "\\u0523", "\\u0525",
  "\\u0527", "\\u0529", "\\u052B", "\\u052D", "\\u052F", "\\u0561",
  "\\u0562", "\\u0563", "\\u0564", "\\u0565", "\\u0566", "\\u0567",
  "\\u0568", "\\u0569", "\\u056A", "\\u056B", "\\u056C", "\\u056D",
  "\\u056E", "\\u056F", "\\u0570", "\\u0571", "\\u0572", "\\u0573",
  "\\u0574", "\\u0575", "\\u0576", "\\u0577", "\\u0578", "\\u0579",
  "\\u057A", "\\u057B", "\\u057C", "\\u057D", "\\u057E", "\\u057F", "ր",
  "ց", "ւ", "փ", "ք", "օ", "ֆ", "և", "ა", "ბ", "გ", "დ", "ე", "ვ", "ზ",
  "თ", "ი", "კ", "ლ", "მ", "ნ", "ო", "პ", "ჟ", "რ", "ს", "ტ", "უ", "ფ",
  "ქ", "ღ", "ყ", "შ", "ჩ", "ც", "ძ", "წ", "ჭ", "ხ", "ჯ", "ჰ", "ჱ", "ჲ",
  "ჳ", "ჴ", "ჵ", "ჶ", "ჷ", "ჸ", "ჹ", "ჺ", "ჽ", "ჾ", "ჿ", "ᏸ", "ᏹ", "ᏺ",
  "ᏻ", "ᏼ", "ᏽ", "ᲀ", "ᲁ", "ᲂ", "ᲃ", "ᲄ", "ᲅ", "ᲆ", "ᲇ", "ᲈ", "ᲊ",
  "\\u1D79", "\\u1D7D", "ᶎ", "\\u1E01", "\\u1E03", "\\u1E05", "\\u1E07",
  "\\u1E09", "\\u1E0B", "\\u1E0D", "\\u1E0F", "\\u1E11", "\\u1E13",
  "\\u1E15", "\\u1E17", "\\u1E19", "\\u1E1B", "\\u1E1D", "\\u1E1F",
  "\\u1E21", "\\u1E23", "\\u1E25", "\\u1E27", "\\u1E29", "\\u1E2B",
  "\\u1E2D", "\\u1E2F", "\\u1E31", "\\u1E33", "\\u1E35", "\\u1E37",
  "\\u1E39", "\\u1E3B", "\\u1E3D", "\\u1E3F", "\\u1E41", "\\u1E43",
  "\\u1E45", "\\u1E47", "\\u1E49", "\\u1E4B", "\\u1E4D", "\\u1E4F",
  "\\u1E51", "\\u1E53", "\\u1E55", "\\u1E57", "\\u1E59", "\\u1E5B",
  "\\u1E5D", "\\u1E5F", "\\u1E61", "\\u1E63", "\\u1E65", "\\u1E67",
  "\\u1E69", "\\u1E6B", "\\u1E6D", "\\u1E6F", "\\u1E71", "\\u1E73",
  "\\u1E75", "\\u1E77", "\\u1E79", "\\u1E7B", "\\u1E7D", "\\u1E7F", "ẁ",
  "ẃ", "ẅ", "ẇ", "ẉ", "ẋ", "ẍ", "ẏ", "ẑ", "ẓ", "ẕ", "ẖ", "ẗ", "ẘ", "ẙ",
  "ẚ", "ẛ", "ạ", "ả", "ấ", "ầ", "ẩ", "ẫ", "ậ", "ắ", "ằ", "ẳ", "ẵ", "ặ",
  "ẹ", "ẻ", "ẽ", "ế", "ề", "ể", "ễ", "ệ", "ỉ", "ị", "ọ", "ỏ", "ố", "ồ",
  "ổ", "ỗ", "ộ", "ớ", "ờ", "ở", "ỡ", "ợ", "ụ", "ủ", "ứ", "ừ", "ử", "ữ",
  "ự", "ỳ", "ỵ", "ỷ", "ỹ", "ỻ", "ỽ", "ỿ", "\\u1F00", "\\u1F01", "\\u1F02",
  "\\u1F03", "\\u1F04", "\\u1F05", "\\u1F06", "\\u1F07", "\\u1F10",
  "\\u1F11", "\\u1F12", "\\u1F13", "\\u1F14", "\\u1F15", "\\u1F20",
  "\\u1F21", "\\u1F22", "\\u1F23", "\\u1F24", "\\u1F25", "\\u1F26",
  "\\u1F27", "\\u1F30", "\\u1F31", "\\u1F32", "\\u1F33", "\\u1F34",
  "\\u1F35", "\\u1F36", "\\u1F37", "\\u1F40", "\\u1F41", "\\u1F42",
  "\\u1F43", "\\u1F44", "\\u1F45", "\\u1F50", "\\u1F51", "\\u1F52",
  "\\u1F53", "\\u1F54", "\\u1F55", "\\u1F56", "\\u1F57", "\\u1F60",
  "\\u1F61", "\\u1F62", "\\u1F63", "\\u1F64", "\\u1F65", "\\u1F66",
  "\\u1F67", "\\u1F70", "\\u1F71", "\\u1F72", "\\u1F73", "\\u1F74",
  "\\u1F75", "\\u1F76", "\\u1F77", "\\u1F78", "\\u1F79", "\\u1F7A",
  "\\u1F7B", "\\u1F7C", "\\u1F7D", "ᾀ", "ᾁ", "ᾂ", "ᾃ", "ᾄ", "ᾅ", "ᾆ", "ᾇ",
  "ᾈ", "ᾉ", "ᾊ", "ᾋ", "ᾌ", "ᾍ", "ᾎ", "ᾏ", "ᾐ", "ᾑ", "ᾒ", "ᾓ", "ᾔ", "ᾕ",
  "ᾖ", "ᾗ", "ᾘ", "ᾙ", "ᾚ", "ᾛ", "ᾜ", "ᾝ", "ᾞ", "ᾟ", "ᾠ", "ᾡ", "ᾢ", "ᾣ",
  "ᾤ", "ᾥ", "ᾦ", "ᾧ", "ᾨ", "ᾩ", "ᾪ", "ᾫ", "ᾬ", "ᾭ", "ᾮ", "ᾯ", "ᾰ", "ᾱ",
  "ᾲ", "ᾳ", "ᾴ", "ᾶ", "ᾷ", "ᾼ", "ι", "ῂ", "ῃ", "ῄ", "ῆ", "ῇ", "ῌ", "ῐ",
  "ῑ", "ῒ", "ΐ", "ῖ", "ῗ", "ῠ", "ῡ", "ῢ", "ΰ", "ῤ", "ῥ", "ῦ", "ῧ", "ῲ",
  "ῳ", "ῴ", "ῶ", "ῷ", "ῼ", "\\u214E", "\\u2170", "\\u2171", "\\u2172",
  "\\u2173", "\\u2174", "\\u2175", "\\u2176", "\\u2177", "\\u2178",
  "\\u2179", "\\u217A", "\\u217B", "\\u217C", "\\u217D", "\\u217E",
  "\\u217F", "ↄ", "ⓐ", "ⓑ", "ⓒ", "ⓓ", "ⓔ", "ⓕ", "ⓖ", "ⓗ", "ⓘ", "ⓙ", "ⓚ",
  "ⓛ", "ⓜ", "ⓝ", "ⓞ", "ⓟ", "ⓠ", "ⓡ", "ⓢ", "ⓣ", "ⓤ", "ⓥ", "ⓦ", "ⓧ", "ⓨ",
  "ⓩ", "\\u2C30", "\\u2C31", "\\u2C32", "\\u2C33", "\\u2C34", "\\u2C35",
  "\\u2C36", "\\u2C37", "\\u2C38", "\\u2C39", "\\u2C3A", "\\u2C3B",
  "\\u2C3C", "\\u2C3D", "\\u2C3E", "\\u2C3F", "\\u2C40", "\\u2C41",
  "\\u2C42", "\\u2C43", "\\u2C44", "\\u2C45", "\\u2C46", "\\u2C47",
  "\\u2C48", "\\u2C49", "\\u2C4A", "\\u2C4B", "\\u2C4C", "\\u2C4D",
  "\\u2C4E", "\\u2C4F", "\\u2C50", "\\u2C51", "\\u2C52", "\\u2C53",
  "\\u2C54", "\\u2C55", "\\u2C56", "\\u2C57", "\\u2C58", "\\u2C59",
  "\\u2C5A", "\\u2C5B", "\\u2C5C", "\\u2C5D", "\\u2C5E", "\\u2C5F",
  "\\u2C61", "\\u2C65", "\\u2C66", "\\u2C68", "\\u2C6A", "\\u2C6C",
  "\\u2C73", "\\u2C76", "ⲁ", "ⲃ", "ⲅ", "ⲇ", "ⲉ", "ⲋ", "ⲍ", "ⲏ", "ⲑ", "ⲓ",
  "ⲕ", "ⲗ", "ⲙ", "ⲛ", "ⲝ", "ⲟ", "ⲡ", "ⲣ", "ⲥ", "ⲧ", "ⲩ", "ⲫ", "ⲭ", "ⲯ",
  "ⲱ", "ⲳ", "ⲵ", "ⲷ", "ⲹ", "ⲻ", "ⲽ", "ⲿ", "ⳁ", "ⳃ", "ⳅ", "ⳇ", "ⳉ", "ⳋ",
  "ⳍ", "ⳏ", "ⳑ", "ⳓ", "ⳕ", "ⳗ", "ⳙ", "ⳛ", "ⳝ", "ⳟ", "ⳡ", "ⳣ", "ⳬ", "ⳮ",
  "ⳳ", "\\u2D00", "\\u2D01", "\\u2D02", "\\u2D03", "\\u2D04", "\\u2D05",
  "\\u2D06", "\\u2D07", "\\u2D08", "\\u2D09", "\\u2D0A", "\\u2D0B",
  "\\u2D0C", "\\u2D0D", "\\u2D0E", "\\u2D0F", "\\u2D10", "\\u2D11",
  "\\u2D12", "\\u2D13", "\\u2D14", "\\u2D15", "\\u2D16", "\\u2D17",
  "\\u2D18", "\\u2D19", "\\u2D1A", "\\u2D1B", "\\u2D1C", "\\u2D1D",
  "\\u2D1E", "\\u2D1F", "\\u2D20", "\\u2D21", "\\u2D22", "\\u2D23",
  "\\u2D24", "\\u2D25", "\\u2D27", "\\u2D2D", "\\uA641", "\\uA643",
  "\\uA645", "\\uA647", "\\uA649", "\\uA64B", "\\uA64D", "\\uA64F",
  "\\uA651", "\\uA653", "\\uA655", "\\uA657", "\\uA659", "\\uA65B",
  "\\uA65D", "\\uA65F", "\\uA661", "\\uA663", "\\uA665", "\\uA667",
  "\\uA669", "\\uA66B", "\\uA66D", "ꚁ", "ꚃ", "ꚅ", "ꚇ", "ꚉ", "ꚋ", "ꚍ", "ꚏ",
  "ꚑ", "ꚓ", "ꚕ", "ꚗ", "ꚙ", "ꚛ", "\\uA723", "\\uA725", "\\uA727", "\\uA729",
  "\\uA72B", "\\uA72D", "\\uA72F", "\\uA733", "\\uA735", "\\uA737",
  "\\uA739", "\\uA73B", "\\uA73D", "\\uA73F", "\\uA741", "\\uA743",
  "\\uA745", "\\uA747", "\\uA749", "\\uA74B", "\\uA74D", "\\uA74F",
  "\\uA751", "\\uA753", "\\uA755", "\\uA757", "\\uA759", "\\uA75B",
  "\\uA75D", "\\uA75F", "\\uA761", "\\uA763", "\\uA765", "\\uA767",
  "\\uA769", "\\uA76B", "\\uA76D", "\\uA76F", "\\uA77A", "\\uA77C",
  "\\uA77F", "ꞁ", "ꞃ", "ꞅ", "ꞇ", "ꞌ", "ꞑ", "ꞓ", "ꞔ", "ꞗ", "ꞙ", "ꞛ", "ꞝ",
  "ꞟ", "ꞡ", "ꞣ", "ꞥ", "ꞧ", "ꞩ", "ꞵ", "ꞷ", "ꞹ", "ꞻ", "ꞽ", "ꞿ", "ꟁ", "ꟃ",
  "ꟈ", "ꟊ", "ꟍ", "꟏", "ꟑ", "ꟓ", "ꟕ", "ꟗ", "ꟙ", "ꟛ", "ꟶ", "\\uAB53",
  "\\uAB70", "\\uAB71", "\\uAB72", "\\uAB73", "\\uAB74", "\\uAB75",
  "\\uAB76", "\\uAB77", "\\uAB78", "\\uAB79", "\\uAB7A", "\\uAB7B",
  "\\uAB7C", "\\uAB7D", "\\uAB7E", "\\uAB7F", "ꮀ", "ꮁ", "ꮂ", "ꮃ", "ꮄ", "ꮅ",
  "ꮆ", "ꮇ", "ꮈ", "ꮉ", "ꮊ", "ꮋ", "ꮌ", "ꮍ", "ꮎ", "ꮏ", "ꮐ", "ꮑ", "ꮒ", "ꮓ",
  "ꮔ", "ꮕ", "ꮖ", "ꮗ", "ꮘ", "ꮙ", "ꮚ", "ꮛ", "ꮜ", "ꮝ", "ꮞ", "ꮟ", "ꮠ", "ꮡ",
  "ꮢ", "ꮣ", "ꮤ", "ꮥ", "ꮦ", "ꮧ", "ꮨ", "ꮩ", "ꮪ", "ꮫ", "ꮬ", "ꮭ", "ꮮ", "ꮯ",
  "ꮰ", "ꮱ", "ꮲ", "ꮳ", "ꮴ", "ꮵ", "ꮶ", "ꮷ", "ꮸ", "ꮹ", "ꮺ", "ꮻ", "ꮼ", "ꮽ",
  "ꮾ", "ꮿ", "\\uFB00", "\\uFB01", "\\uFB02", "\\uFB03", "\\uFB04",
  "\\uFB05", "\\uFB06", "\\uFB13", "\\uFB14", "\\uFB15", "\\uFB16",
  "\\uFB17", "\\uFF41", "\\uFF42", "\\uFF43", "\\uFF44", "\\uFF45",
  "\\uFF46", "\\uFF47", "\\uFF48", "\\uFF49", "\\uFF4A", "\\uFF4B",
  "\\uFF4C", "\\uFF4D", "\\uFF4E", "\\uFF4F", "\\uFF50", "\\uFF51",
  "\\uFF52", "\\uFF53", "\\uFF54", "\\uFF55", "\\uFF56", "\\uFF57",
  "\\uFF58", "\\uFF59", "\\uFF5A" >>

UpperTo == <<
  <<"Μ">>, <<"S", "S">>, <<"À">>, <<"Á">>, <<"Â">>, <<"Ã">>, <<"Ä">>,
  <<"Å">>, <<"Æ">>, <<"Ç">>, <<"È">>, <<"É">>, <<"Ê">>, <<"Ë">>, <<"Ì">>,
  <<"Í">>, <<"Î">>, <<"Ï">>, <<"Ð">>, <<"Ñ">>, <<"Ò">>, <<"Ó">>, <<"Ô">>,
  <<"Õ">>, <<"Ö">>, <<"Ø">>, <<"Ù">>, <<"Ú">>, <<"Û">>, <<"Ü">>, <<"Ý">>,
  <<"Þ">>, <<"\\u0178">>, <<"\\u0100">>, <<"\\u0102">>, <<"\\u0104">>,
  <<"\\u0106">>, <<"\\u0108">>, <<"\\u010A">>, <<"\\u010C">>,
  <<"\\u010E">>, <<"\\u0110">>, <<"\\u0112">>, <<"\\u0114">>,
  <<"\\u0116">>, <<"\\u0118">>, <<"\\u011A">>, <<"\\u011C">>,
  <<"\\u011E">>, <<"\\u0120">>, <<"\\u0122">>, <<"\\u0124">>,
  <<"\\u0126">>, <<"\\u0128">>, <<"\\u012A">>, <<"\\u012C">>,
  <<"\\u012E">>, <<"I">>, <<"\\u0132">>, <<"\\u0134">>, <<"\\u0136">>,
  <<"\\u0139">>, <<"\\u013B">>, <<"\\u013D">>, <<"\\u013F">>,
  <<"\\u0141">>, <<"\\u0143">>, <<"\\u0145">>, <<"\\u0147">>, <<"ʼ", "N">>,
  <<"\\u014A">>, <<"\\u014C">>, <<"\\u014E">>, <<"\\u0150">>,
  <<"\\u0152">>, <<"\\u0154">>, <<"\\u0156">>, <<"\\u0158">>,
  <<"\\u015A">>, <<"\\u015C">>, <<"\\u015E">>, <<"\\u0160">>,
  <<"\\u0162">>, <<"\\u0164">>, <<"\\u0166">>, <<"\\u0168">>,
  <<"\\u016A">>, <<"\\u016C">>, <<"\\u016E">>, <<"\\u0170">>,
  <<"\\u0172">>, <<"\\u0174">>, <<"\\u0176">>, <<"\\u0179">>,
  <<"\\u017B">>, <<"\\u017D">>, <<"S">>, <<"\\u0243">>, <<"Ƃ">>, <<"Ƅ">>,
  <<"Ƈ">>, <<"Ƌ">>, <<"Ƒ">>, <<"Ƕ">>, <<"Ƙ">>, <<"\\u023D">>, <<"Ƛ">>,
  <<"\\u0220">>, <<"Ơ">>, <<"Ƣ">>, <<"Ƥ">>, <<"Ƨ">>, <<"Ƭ">>, <<"Ư">>,
  <<"Ƴ">>, <<"Ƶ">>, <<"Ƹ">>, <<"Ƽ">>, <<"Ƿ">>, <<"Ǆ">>, <<"Ǆ">>, <<"Ǉ">>,
  <<"Ǉ">>, <<"Ǌ">>, <<"Ǌ">>, <<"Ǎ">>, <<"Ǐ">>, <<"Ǒ">>, <<"Ǔ">>, <<"Ǖ">>,
  <<"Ǘ">>, <<"Ǚ">>, <<"Ǜ">>, <<"Ǝ">>, <<"Ǟ">>, <<"Ǡ">>, <<"Ǣ">>, <<"Ǥ">>,
  <<"Ǧ">>, <<"Ǩ">>, <<"Ǫ">>, <<"Ǭ">>, <<"Ǯ">>, <<"J", "\\u030C">>, <<"Ǳ">>,
  <<"Ǳ">>, <<"Ǵ">>, <<"Ǹ">>, <<"Ǻ">>, <<"Ǽ">>, <<"Ǿ">>, <<"\\u0200">>,
  <<"\\u0202">>, <<"\\u0204">>, <<"\\u0206">>, <<"\\u0208">>,
  <<"\\u020A">>, <<"\\u020C">>, <<"\\u020E">>, <<"\\u0210">>,
  <<"\\u0212">>, <<"\\u0214">>, <<"\\u0216">>, <<"\\u0218">>,
  <<"\\u021A">>, <<"\\u021C">>, <<"\\u021E">>, <<"\\u0222">>,
  <<"\\u0224">>, <<"\\u0226">>, <<"\\u0228">>, <<"\\u022A">>,
  <<"\\u022C">>, <<"\\u022E">>, <<"\\u0230">>, <<"\\u0232">>,
  <<"\\u023B">>, <<"\\u2C7E">>, <<"\\u2C7F">>, <<"\\u0241">>,
  <<"\\u0246">>, <<"\\u0248">>, <<"\\u024A">>, <<"\\u024C">>,
  <<"\\u024E">>, <<"\\u2C6F">>, <<"\\u2C6D">>, <<"\\u2C70">>, <<"Ɓ">>,
  <<"Ɔ">>, <<"Ɖ">>, <<"Ɗ">>, <<"Ə">>, <<"Ɛ">>, <<"Ɜ">>, <<"Ɠ">>, <<"Ɡ">>,
  <<"Ɣ">>, <<"Ɤ">>, <<"Ɥ">>, <<"Ɦ">>, <<"Ɨ">>, <<"Ɩ">>, <<"Ɪ">>,
  <<"\\u2C62">>, <<"Ɬ">>, <<"Ɯ">>, <<"\\u2C6E">>, <<"Ɲ">>, <<"Ɵ">>,
  <<"\\u2C64">>, <<"Ʀ">>, <<"Ʂ">>, <<"Ʃ">>, <<"Ʇ">>, <<"Ʈ">>,
  <<"\\u0244">>, <<"Ʊ">>, <<"Ʋ">>, <<"\\u0245">>, <<"Ʒ">>, <<"Ʝ">>,
  <<"Ʞ">>, <<"Ι">>, <<"\\u0370">>, <<"\\u0372">>, <<"\\u0376">>, <<"Ͻ">>,
  <<"Ͼ">>, <<"Ͽ">>, <<"Ι", "\\u0308", "\\u0301">>, <<"Ά">>, <<"Έ">>,
  <<"Ή">>, <<"Ί">>, <<"Υ", "\\u0308", "\\u0301">>, <<"Α">>, <<"Β">>,
  <<"Γ">>, <<"Δ">>, <<"Ε">>, <<"Ζ">>, <<"Η">>, <<"Θ">>, <<"Ι">>, <<"Κ">>,
  <<"Λ">>, <<"Μ">>, <<"Ν">>, <<"Ξ">>, <<"Ο">>, <<"Π">>, <<"Ρ">>, <<"Σ">>,
  <<"Σ">>, <<"Τ">>, <<"Υ">>, <<"Φ">>, <<"Χ">>, <<"Ψ">>, <<"Ω">>, <<"Ϊ">>,
  <<"Ϋ">>, <<"Ό">>, <<"Ύ">>, <<"Ώ">>, <<"Β">>, <<"Θ">>, <<"Φ">>, <<"Π">>,
  <<"Ϗ">>, <<"Ϙ">>, <<"Ϛ">>, <<"Ϝ">>, <<"Ϟ">>, <<"Ϡ">>, <<"Ϣ">>, <<"Ϥ">>,
  <<"Ϧ">>, <<"Ϩ">>, <<"Ϫ">>, <<"Ϭ">>, <<"Ϯ">>, <<"Κ">>, <<"Ρ">>, <<"Ϲ">>,
  <<"\\u037F">>, <<"Ε">>, <<"Ϸ">>, <<"Ϻ">>, <<"\\u0410">>, <<"\\u0411">>,
  <<"\\u0412">>, <<"\\u0413">>, <<"\\u0414">>, <<"\\u0415">>,
  <<"\\u0416">>, <<"\\u0417">>, <<"\\u0418">>, <<"\\u0419">>,
  <<"\\u041A">>, <<"\\u041B">>, <<"\\u041C">>, <<"\\u041D">>,
  <<"\\u041E">>, <<"\\u041F">>, <<"\\u0420">>, <<"\\u0421">>,
  <<"\\u0422">>, <<"\\u0423">>, <<"\\u0424">>, <<"\\u0425">>,
  <<"\\u0426">>, <<"\\u0427">>, <<"\\u0428">>, <<"\\u0429">>,
  <<"\\u042A">>, <<"\\u042B">>, <<"\\u042C">>, <<"\\u042D">>,
  <<"\\u042E">>, <<"\\u042F">>, <<"\\u0400">>, <<"\\u0401">>,
  <<"\\u0402">>, <<"\\u0403">>, <<"\\u0404">>, <<"\\u0405">>,
  <<"\\u0406">>, <<"\\u0407">>, <<"\\u0408">>, <<"\\u0409">>,
  <<"\\u040A">>, <<"\\u040B">>, <<"\\u040C">>, <<"\\u040D">>,
  <<"\\u040E">>, <<"\\u040F">>, <<"\\u0460">>, <<"\\u0462">>,
  <<"\\u0464">>, <<"\\u0466">>, <<"\\u0468">>, <<"\\u046A">>,
  <<"\\u046C">>, <<"\\u046E">>, <<"\\u0470">>, <<"\\u0472">>,
  <<"\\u0474">>, <<"\\u0476">>, <<"\\u0478">>, <<"\\u047A">>,
  <<"\\u047C">>, <<"\\u047E">>, <<"Ҁ">>, <<"Ҋ">>, <<"Ҍ">>, <<"Ҏ">>,
  <<"Ґ">>, <<"Ғ">>, <<"Ҕ">>, <<"Җ">>, <<"Ҙ">>, <<"Қ">>, <<"Ҝ">>, <<"Ҟ">>,
  <<"Ҡ">>, <<"Ң">>, <<"Ҥ">>, <<"Ҧ">>, <<"Ҩ">>, <<"Ҫ">>, <<"Ҭ">>, <<"Ү">>,
  <<"Ұ">>, <<"Ҳ">>, <<"Ҵ">>, <<"Ҷ">>, <<"Ҹ">>, <<"Һ">>, <<"Ҽ">>, <<"Ҿ">>,
  <<"Ӂ">>, <<"Ӄ">>, <<"Ӆ">>, <<"Ӈ">>, <<"Ӊ">>, <<"Ӌ">>, <<"Ӎ">>, <<"Ӏ">>,
  <<"Ӑ">>, <<"Ӓ">>, <<"Ӕ">>, <<"Ӗ">>, <<"Ә">>, <<"Ӛ">>, <<"Ӝ">>, <<"Ӟ">>,
  <<"Ӡ">>, <<"Ӣ">>, <<"Ӥ">>, <<"Ӧ">>, <<"Ө">>, <<"Ӫ">>, <<"Ӭ">>, <<"Ӯ">>,
  <<"Ӱ">>, <<"Ӳ">>, <<"Ӵ">>, <<"Ӷ">>, <<"Ӹ">>, <<"Ӻ">>, <<"Ӽ">>, <<"Ӿ">>,
  <<"\\u0500">>, <<"\\u0502">>, <<"\\u0504">>, <<"\\u0506">>,
  <<"\\u0508">>, <<"\\u050A">>, <<"\\u050C">>, <<"\\u050E">>,
  <<"\\u0510">>, <<"\\u0512">>, <<"\\u0514">>, <<"\\u0516">>,
  <<"\\u0518">>, <<"\\u051A">>, <<"\\u051C">>, <<"\\u051E">>,
  <<"\\u0520">>, <<"\\u0522">>, <<"\\u0524">>, <<"\\u0526">>,
  <<"\\u0528">>, <<"\\u052A">>, <<"\\u052C">>, <<"\\u052E">>,
  <<"\\u0531">>, <<"\\u0532">>, <<"\\u0533">>, <<"\\u0534">>,
  <<"\\u0535">>, <<"\\u0536">>, <<"\\u0537">>, <<"\\u0538">>,
  <<"\\u0539">>, <<"\\u053A">>, <<"\\u053B">>, <<"\\u053C">>,
  <<"\\u053D">>, <<"\\u053E">>, <<"\\u053F">>, <<"\\u0540">>,
  <<"\\u0541">>, <<"\\u0542">>, <<"\\u0543">>, <<"\\u0544">>,
  <<"\\u0545">>, <<"\\u0546">>, <<"\\u0547">>, <<"\\u0548">>,
  <<"\\u0549">>, <<"\\u054A">>, <<"\\u054B">>, <<"\\u054C">>,
  <<"\\u054D">>, <<"\\u054E">>, <<"\\u054F">>, <<"\\u0550">>,
  <<"\\u0551">>, <<"\\u0552">>, <<"\\u0553">>, <<"\\u0554">>,
  <<"\\u0555">>, <<"\\u0556">>, <<"\\u0535", "\\u0552">>, <<"Ა">>, <<"Ბ">>,
  <<"Გ">>, <<"Დ">>, <<"Ე">>, <<"Ვ">>, <<"Ზ">>, <<"Თ">>, <<"Ი">>, <<"Კ">>,
  <<"Ლ">>, <<"Მ">>, <<"Ნ">>, <<"Ო">>, <<"Პ">>, <<"Ჟ">>, <<"Რ">>, <<"Ს">>,
  <<"Ტ">>, <<"Უ">>, <<"Ფ">>, <<"Ქ">>, <<"Ღ">>, <<"Ყ">>, <<"Შ">>, <<"Ჩ">>,
  <<"Ც">>, <<"Ძ">>, <<"Წ">>, <<"Ჭ">>, <<"Ხ">>, <<"Ჯ">>, <<"Ჰ">>, <<"Ჱ">>,
  <<"Ჲ">>, <<"Ჳ">>, <<"Ჴ">>, <<"Ჵ">>, <<"Ჶ">>, <<"Ჷ">>, <<"Ჸ">>, <<"Ჹ">>,
  <<"Ჺ">>, <<"Ჽ">>, <<"Ჾ">>, <<"Ჿ">>, <<"Ᏸ">>, <<"Ᏹ">>, <<"Ᏺ">>, <<"Ᏻ">>,
  <<"Ᏼ">>, <<"Ᏽ">>, <<"\\u0412">>, <<"\\u0414">>, <<"\\u041E">>,
  <<"\\u0421">>, <<"\\u0422">>, <<"\\u0422">>, <<"\\u042A">>,
  <<"\\u0462">>, <<"\\uA64A">>, <<"Ᲊ">>, <<"\\uA77D">>, <<"\\u2C63">>,
  <<"Ᶎ">>, <<"\\u1E00">>, <<"\\u1E02">>, <<"\\u1E04">>, <<"\\u1E06">>,
  <<"\\u1E08">>, <<"\\u1E0A">>, <<"\\u1E0C">>, <<"\\u1E0E">>,
  <<"\\u1E10">>, <<"\\u1E12">>, <<"\\u1E14">>, <<"\\u1E16">>,
  <<"\\u1E18">>, <<"\\u1E1A">>, <<"\\u1E1C">>, <<"\\u1E1E">>,
  <<"\\u1E20">>, <<"\\u1E22">>, <<"\\u1E24">>, <<"\\u1E26">>,
  <<"\\u1E28">>, <<"\\u1E2A">>, <<"\\u1E2C">>, <<"\\u1E2E">>,
  <<"\\u1E30">>, <<"\\u1E32">>, <<"\\u1E34">>, <<"\\u1E36">>,
  <<"\\u1E38">>, <<"\\u1E3A">>, <<"\\u1E3C">>, <<"\\u1E3E">>,
  <<"\\u1E40">>, <<"\\u1E42">>, <<"\\u1E44">>, <<"\\u1E46">>,
  <<"\\u1E48">>, <<"\\u1E4A">>, <<"\\u1E4C">>, <<"\\u1E4E">>,
  <<"\\u1E50">>, <<"\\u1E52">>, <<"\\u1E54">>, <<"\\u1E56">>,
  <<"\\u1E58">>, <<"\\u1E5A">>, <<"\\u1E5C">>, <<"\\u1E5E">>,
  <<"\\u1E60">>, <<"\\u1E62">>, <<"\\u1E64">>, <<"\\u1E66">>,
  <<"\\u1E68">>, <<"\\u1E6A">>, <<"\\u1E6C">>, <<"\\u1E6E">>,
  <<"\\u1E70">>, <<"\\u1E72">>, <<"\\u1E74">>, <<"\\u1E76">>,
  <<"\\u1E78">>, <<"\\u1E7A">>, <<"\\u1E7C">>, <<"\\u1E7E">>, <<"Ẁ">>,
  <<"Ẃ">>, <<"Ẅ">>, <<"Ẇ">>, <<"Ẉ">>, <<"Ẋ">>, <<"Ẍ">>, <<"Ẏ">>, <<"Ẑ">>,
  <<"Ẓ">>, <<"Ẕ">>, <<"H", "\\u0331">>, <<"T", "\\u0308">>,
  <<"W", "\\u030A">>, <<"Y", "\\u030A">>, <<"A", "ʾ">>, <<"\\u1E60">>,
  <<"Ạ">>, <<"Ả">>, <<"Ấ">>, <<"Ầ">>, <<"Ẩ">>, <<"Ẫ">>, <<"Ậ">>, <<"Ắ">>,
  <<"Ằ">>, <<"Ẳ">>, <<"Ẵ">>, <<"Ặ">>, <<"Ẹ">>, <<"Ẻ">>, <<"Ẽ">>, <<"Ế">>,
  <<"Ề">>, <<"Ể">>, <<"Ễ">>, <<"Ệ">>, <<"Ỉ">>, <<"Ị">>, <<"Ọ">>, <<"Ỏ">>,
  <<"Ố">>, <<"Ồ">>, <<"Ổ">>, <<"Ỗ">>, <<"Ộ">>, <<"Ớ">>, <<"Ờ">>, <<"Ở">>,
  <<"Ỡ">>, <<"Ợ">>, <<"Ụ">>, <<"Ủ">>, <<"Ứ">>, <<"Ừ">>, <<"Ử">>, <<"Ữ">>,
  <<"Ự">>, <<"Ỳ">>, <<"Ỵ">>, <<"Ỷ">>, <<"Ỹ">>, <<"Ỻ">>, <<"Ỽ">>, <<"Ỿ">>,
  <<"\\u1F08">>, <<"\\u1F09">>, <<"\\u1F0A">>, <<"\\u1F0B">>,
  <<"\\u1F0C">>, <<"\\u1F0D">>, <<"\\u1F0E">>, <<"\\u1F0F">>,
  <<"\\u1F18">>, <<"\\u1F19">>, <<"\\u1F1A">>, <<"\\u1F1B">>,
  <<"\\u1F1C">>, <<"\\u1F1D">>, <<"\\u1F28">>, <<"\\u1F29">>,
  <<"\\u1F2A">>, <<"\\u1F2B">>, <<"\\u1F2C">>, <<"\\u1F2D">>,
  <<"\\u1F2E">>, <<"\\u1F2F">>, <<"\\u1F38">>, <<"\\u1F39">>,
  <<"\\u1F3A">>, <<"\\u1F3B">>, <<"\\u1F3C">>, <<"\\u1F3D">>,
  <<"\\u1F3E">>, <<"\\u1F3F">>, <<"\\u1F48">>, <<"\\u1F49">>,
  <<"\\u1F4A">>, <<"\\u1F4B">>, <<"\\u1F4C">>, <<"\\u1F4D">>,
  <<"Υ", "\\u0313">>, <<"\\u1F59">>, <<"Υ", "\\u0313", "\\u0300">>,
  <<"\\u1F5B">>, <<"Υ", "\\u0313", "\\u0301">>, <<"\\u1F5D">>,
  <<"Υ", "\\u0313", "\\u0342">>, <<"\\u1F5F">>, <<"\\u1F68">>,
  <<"\\u1F69">>, <<"\\u1F6A">>, <<"\\u1F6B">>, <<"\\u1F6C">>,
  <<"\\u1F6D">>, <<"\\u1F6E">>, <<"\\u1F6F">>, <<"Ὰ">>, <<"Ά">>, <<"Ὲ">>,
  <<"Έ">>, <<"Ὴ">>, <<"Ή">>, <<"Ὶ">>, <<"Ί">>, <<"Ὸ">>, <<"Ό">>, <<"Ὺ">>,
  <<"Ύ">>, <<"Ὼ">>, <<"Ώ">>, <<"\\u1F08", "Ι">>, <<"\\u1F09", "Ι">>,
  <<"\\u1F0A", "Ι">>, <<"\\u1F0B", "Ι">>, <<"\\u1F0C", "Ι">>,
  <<"\\u1F0D", "Ι">>, <<"\\u1F0E", "Ι">>, <<"\\u1F0F", "Ι">>,
  <<"\\u1F08", "Ι">>, <<"\\u1F09", "Ι">>, <<"\\u1F0A", "Ι">>,
  <<"\\u1F0B", "Ι">>, <<"\\u1F0C", "Ι">>, <<"\\u1F0D", "Ι">>,
  <<"\\u1F0E", "Ι">>, <<"\\u1F0F", "Ι">>, <<"\\u1F28", "Ι">>,
  <<"\\u1F29", "Ι">>, <<"\\u1F2A", "Ι">>, <<"\\u1F2B", "Ι">>,
  <<"\\u1F2C", "Ι">>, <<"\\u1F2D", "Ι">>, <<"\\u1F2E", "Ι">>,
  <<"\\u1F2F", "Ι">>, <<"\\u1F28", "Ι">>, <<"\\u1F29", "Ι">>,
  <<"\\u1F2A", "Ι">>, <<"\\u1F2B", "Ι">>, <<"\\u1F2C", "Ι">>,
  <<"\\u1F2D", "Ι">>, <<"\\u1F2E", "Ι">>, <<"\\u1F2F", "Ι">>,
  <<"\\u1F68", "Ι">>, <<"\\u1F69", "Ι">>, <<"\\u1F6A", "Ι">>,
  <<"\\u1F6B", "Ι">>, <<"\\u1F6C", "Ι">>, <<"\\u1F6D", "Ι">>,
  <<"\\u1F6E", "Ι">>, <<"\\u1F6F", "Ι">>, <<"\\u1F68", "Ι">>,
  <<"\\u1F69", "Ι">>, <<"\\u1F6A", "Ι">>, <<"\\u1F6B", "Ι">>,
  <<"\\u1F6C", "Ι">>, <<"\\u1F6D", "Ι">>, <<"\\u1F6E", "Ι">>,
  <<"\\u1F6F", "Ι">>, <<"Ᾰ">>, <<"Ᾱ">>, <<"Ὰ", "Ι">>, <<"Α", "Ι">>,
  <<"Ά", "Ι">>, <<"Α", "\\u0342">>, <<"Α", "\\u0342", "Ι">>, <<"Α", "Ι">>,
  <<"Ι">>, <<"Ὴ", "Ι">>, <<"Η", "Ι">>, <<"Ή", "Ι">>, <<"Η", "\\u0342">>,
  <<"Η", "\\u0342", "Ι">>, <<"Η", "Ι">>, <<"Ῐ">>, <<"Ῑ">>,
  <<"Ι", "\\u0308", "\\u0300">>, <<"Ι", "\\u0308", "\\u0301">>,
  <<"Ι", "\\u0342">>, <<"Ι", "\\u0308", "\\u0342">>, <<"Ῠ">>, <<"Ῡ">>,
  <<"Υ", "\\u0308", "\\u0300">>, <<"Υ", "\\u0308", "\\u0301">>,
  <<"Ρ", "\\u0313">>, <<"Ῥ">>, <<"Υ", "\\u0342">>,
  <<"Υ", "\\u0308", "\\u0342">>, <<"Ὼ", "Ι">>, <<"Ω", "Ι">>, <<"Ώ", "Ι">>,
  <<"Ω", "\\u0342">>, <<"Ω", "\\u0342", "Ι">>, <<"Ω", "Ι">>, <<"\\u2132">>,
  <<"\\u2160">>, <<"\\u2161">>, <<"\\u2162">>, <<"\\u2163">>,
  <<"\\u2164">>, <<"\\u2165">>, <<"\\u2166">>, <<"\\u2167">>,
  <<"\\u2168">>, <<"\\u2169">>, <<"\\u216A">>, <<"\\u216B">>,
  <<"\\u216C">>, <<"\\u216D">>, <<"\\u216E">>, <<"\\u216F">>, <<"Ↄ">>,
  <<"Ⓐ">>, <<"Ⓑ">>, <<"Ⓒ">>, <<"Ⓓ">>, <<"Ⓔ">>, <<"Ⓕ">>, <<"Ⓖ">>, <<"Ⓗ">>,
  <<"Ⓘ">>, <<"Ⓙ">>, <<"Ⓚ">>, <<"Ⓛ">>, <<"Ⓜ">>, <<"Ⓝ">>, <<"Ⓞ">>, <<"Ⓟ">>,
  <<"Ⓠ">>, <<"Ⓡ">>, <<"Ⓢ">>, <<"Ⓣ">>, <<"Ⓤ">>, <<"Ⓥ">>, <<"Ⓦ">>, <<"Ⓧ">>,
  <<"Ⓨ">>, <<"Ⓩ">>, <<"\\u2C00">>, <<"\\u2C01">>, <<"\\u2C02">>,
  <<"\\u2C03">>, <<"\\u2C04">>, <<"\\u2C05">>, <<"\\u2C06">>,
  <<"\\u2C07">>, <<"\\u2C08">>, <<"\\u2C09">>, <<"\\u2C0A">>,
  <<"\\u2C0B">>, <<"\\u2C0C">>, <<"\\u2C0D">>, <<"\\u2C0E">>,
  <<"\\u2C0F">>, <<"\\u2C10">>, <<"\\u2C11">>, <<"\\u2C12">>,
  <<"\\u2C13">>, <<"\\u2C14">>, <<"\\u2C15">>, <<"\\u2C16">>,
  <<"\\u2C17">>, <<"\\u2C18">>, <<"\\u2C19">>, <<"\\u2C1A">>,
  <<"\\u2C1B">>, <<"\\u2C1C">>, <<"\\u2C1D">>, <<"\\u2C1E">>,
  <<"\\u2C1F">>, <<"\\u2C20">>, <<"\\u2C21">>, <<"\\u2C22">>,
  <<"\\u2C23">>, <<"\\u2C24">>, <<"\\u2C25">>, <<"\\u2C26">>,
  <<"\\u2C27">>, <<"\\u2C28">>, <<"\\u2C29">>, <<"\\u2C2A">>,
  <<"\\u2C2B">>, <<"\\u2C2C">>, <<"\\u2C2D">>, <<"\\u2C2E">>,
  <<"\\u2C2F">>, <<"\\u2C60">>, <<"\\u023A">>, <<"\\u023E">>,
  <<"\\u2C67">>, <<"\\u2C69">>, <<"\\u2C6B">>, <<"\\u2C72">>,
  <<"\\u2C75">>, <<"Ⲁ">>, <<"Ⲃ">>, <<"Ⲅ">>, <<"Ⲇ">>, <<"Ⲉ">>, <<"Ⲋ">>,
  <<"Ⲍ">>, <<"Ⲏ">>, <<"Ⲑ">>, <<"Ⲓ">>, <<"Ⲕ">>, <<"Ⲗ">>, <<"Ⲙ">>, <<"Ⲛ">>,
  <<"Ⲝ">>, <<"Ⲟ">>, <<"Ⲡ">>, <<"Ⲣ">>, <<"Ⲥ">>, <<"Ⲧ">>, <<"Ⲩ">>, <<"Ⲫ">>,
  <<"Ⲭ">>, <<"Ⲯ">>, <<"Ⲱ">>, <<"Ⲳ">>, <<"Ⲵ">>, <<"Ⲷ">>, <<"Ⲹ">>, <<"Ⲻ">>,
  <<"Ⲽ">>, <<"Ⲿ">>, <<"Ⳁ">>, <<"Ⳃ">>, <<"Ⳅ">>, <<"Ⳇ">>, <<"Ⳉ">>, <<"Ⳋ">>,
  <<"Ⳍ">>, <<"Ⳏ">>, <<"Ⳑ">>, <<"Ⳓ">>, <<"Ⳕ">>, <<"Ⳗ">>, <<"Ⳙ">>, <<"Ⳛ">>,
  <<"Ⳝ">>, <<"Ⳟ">>, <<"Ⳡ">>, <<"Ⳣ">>, <<"Ⳬ">>, <<"Ⳮ">>, <<"Ⳳ">>, <<"Ⴀ">>,
  <<"Ⴁ">>, <<"Ⴂ">>, <<"Ⴃ">>, <<"Ⴄ">>, <<"Ⴅ">>, <<"Ⴆ">>, <<"Ⴇ">>, <<"Ⴈ">>,
  <<"Ⴉ">>, <<"Ⴊ">>, <<"Ⴋ">>, <<"Ⴌ">>, <<"Ⴍ">>, <<"Ⴎ">>, <<"Ⴏ">>, <<"Ⴐ">>,
  <<"Ⴑ">>, <<"Ⴒ">>, <<"Ⴓ">>, <<"Ⴔ">>, <<"Ⴕ">>, <<"Ⴖ">>, <<"Ⴗ">>, <<"Ⴘ">>,
  <<"Ⴙ">>, <<"Ⴚ">>, <<"Ⴛ">>, <<"Ⴜ">>, <<"Ⴝ">>, <<"Ⴞ">>, <<"Ⴟ">>, <<"Ⴠ">>,
  <<"Ⴡ">>, <<"Ⴢ">>, <<"Ⴣ">>, <<"Ⴤ">>, <<"Ⴥ">>, <<"Ⴧ">>, <<"Ⴭ">>,
  <<"\\uA640">>, <<"\\uA642">>, <<"\\uA644">>, <<"\\uA646">>,
  <<"\\uA648">>, <<"\\uA64A">>, <<"\\uA64C">>, <<"\\uA64E">>,
  <<"\\uA650">>, <<"\\uA652">>, <<"\\uA654">>, <<"\\uA656">>,
  <<"\\uA658">>, <<"\\uA65A">>, <<"\\uA65C">>, <<"\\uA65E">>,
  <<"\\uA660">>, <<"\\uA662">>, <<"\\uA664">>, <<"\\uA666">>,
  <<"\\uA668">>, <<"\\uA66A">>, <<"\\uA66C">>, <<"Ꚁ">>, <<"Ꚃ">>, <<"Ꚅ">>,
  <<"Ꚇ">>, <<"Ꚉ">>, <<"Ꚋ">>, <<"Ꚍ">>, <<"Ꚏ">>, <<"Ꚑ">>, <<"Ꚓ">>, <<"Ꚕ">>,
  <<"Ꚗ">>, <<"Ꚙ">>, <<"Ꚛ">>, <<"\\uA722">>, <<"\\uA724">>, <<"\\uA726">>,
  <<"\\uA728">>, <<"\\uA72A">>, <<"\\uA72C">>, <<"\\uA72E">>,
  <<"\\uA732">>, <<"\\uA734">>, <<"\\uA736">>, <<"\\uA738">>,
  <<"\\uA73A">>, <<"\\uA73C">>, <<"\\uA73E">>, <<"\\uA740">>,
  <<"\\uA742">>, <<"\\uA744">>, <<"\\uA746">>, <<"\\uA748">>,
  <<"\\uA74A">>, <<"\\uA74C">>, <<"\\uA74E">>, <<"\\uA750">>,
  <<"\\uA752">>, <<"\\uA754">>, <<"\\uA756">>, <<"\\uA758">>,
  <<"\\uA75A">>, <<"\\uA75C">>, <<"\\uA75E">>, <<"\\uA760">>,
  <<"\\uA762">>, <<"\\uA764">>, <<"\\uA766">>, <<"\\uA768">>,
  <<"\\uA76A">>, <<"\\uA76C">>, <<"\\uA76E">>, <<"\\uA779">>,
  <<"\\uA77B">>, <<"\\uA77E">>, <<"Ꞁ">>, <<"Ꞃ">>, <<"Ꞅ">>, <<"Ꞇ">>,
  <<"Ꞌ">>, <<"Ꞑ">>, <<"Ꞓ">>, <<"Ꞔ">>, <<"Ꞗ">>, <<"Ꞙ">>, <<"Ꞛ">>, <<"Ꞝ">>,
  <<"Ꞟ">>, <<"Ꞡ">>, <<"Ꞣ">>, <<"Ꞥ">>, <<"Ꞧ">>, <<"Ꞩ">>, <<"Ꞵ">>, <<"Ꞷ">>,
  <<"Ꞹ">>, <<"Ꞻ">>, <<"Ꞽ">>, <<"Ꞿ">>, <<"Ꟁ">>, <<"Ꟃ">>, <<"Ꟈ">>, <<"Ꟊ">>,
  <<"Ꟍ">>, <<"꟎">>, <<"Ꟑ">>, <<"꟒">>, <<"꟔">>, <<"Ꟗ">>, <<"Ꟙ">>, <<"Ꟛ">>,
  <<"Ꟶ">>, <<"Ꭓ">>, <<"Ꭰ">>, <<"Ꭱ">>, <<"Ꭲ">>, <<"Ꭳ">>, <<"Ꭴ">>, <<"Ꭵ">>,
  <<"Ꭶ">>, <<"Ꭷ">>, <<"Ꭸ">>, <<"Ꭹ">>, <<"Ꭺ">>, <<"Ꭻ">>, <<"Ꭼ">>, <<"Ꭽ">>,
  <<"Ꭾ">>, <<"Ꭿ">>, <<"Ꮀ">>, <<"Ꮁ">>, <<"Ꮂ">>, <<"Ꮃ">>, <<"Ꮄ">>, <<"Ꮅ">>,
  <<"Ꮆ">>, <<"Ꮇ">>, <<"Ꮈ">>, <<"Ꮉ">>, <<"Ꮊ">>, <<"Ꮋ">>, <<"Ꮌ">>, <<"Ꮍ">>,
  <<"Ꮎ">>, <<"Ꮏ">>, <<"Ꮐ">>, <<"Ꮑ">>, <<"Ꮒ">>, <<"Ꮓ">>, <<"Ꮔ">>, <<"Ꮕ">>,
  <<"Ꮖ">>, <<"Ꮗ">>, <<"Ꮘ">>, <<"Ꮙ">>, <<"Ꮚ">>, <<"Ꮛ">>, <<"Ꮜ">>, <<"Ꮝ">>,
  <<"Ꮞ">>, <<"Ꮟ">>, <<"Ꮠ">>, <<"Ꮡ">>, <<"Ꮢ">>, <<"Ꮣ">>, <<"Ꮤ">>, <<"Ꮥ">>,
  <<"Ꮦ">>, <<"Ꮧ">>, <<"Ꮨ">>, <<"Ꮩ">>, <<"Ꮪ">>, <<"Ꮫ">>, <<"Ꮬ">>, <<"Ꮭ">>,
  <<"Ꮮ">>, <<"Ꮯ">>, <<"Ꮰ">>, <<"Ꮱ">>, <<"Ꮲ">>, <<"Ꮳ">>, <<"Ꮴ">>, <<"Ꮵ">>,
  <<"Ꮶ">>, <<"Ꮷ">>, <<"Ꮸ">>, <<"Ꮹ">>, <<"Ꮺ">>, <<"Ꮻ">>, <<"Ꮼ">>, <<"Ꮽ">>,
  <<"Ꮾ">>, <<"Ꮿ">>, <<"F", "F">>, <<"F", "I">>, <<"F", "L">>,
  <<"F", "F", "I">>, <<"F", "F", "L">>, <<"S", "T">>, <<"S", "T">>,
  <<"\\u0544", "\\u0546">>, <<"\\u0544", "\\u0535">>,
  <<"\\u0544", "\\u053B">>, <<"\\u054E", "\\u0546">>,
  <<"\\u0544", "\\u053D">>, <<"\\uFF21">>, <<"\\uFF22">>, <<"\\uFF23">>,
  <<"\\uFF24">>, <<"\\uFF25">>, <<"\\uFF26">>, <<"\\uFF27">>,
  <<"\\uFF28">>, <<"\\uFF29">>, <<"\\uFF2A">>, <<"\\uFF2B">>,
  <<"\\uFF2C">>, <<"\\uFF2D">>, <<"\\uFF2E">>, <<"\\uFF2F">>,
  <<"\\uFF30">>, <<"\\uFF31">>, <<"\\uFF32">>, <<"\\uFF33">>,
  <<"\\uFF34">>, <<"\\uFF35">>, <<"\\uFF36">>, <<"\\uFF37">>,
  <<"\\uFF38">>, <<"\\uFF39">>, <<"\\uFF3A">> >>

LowerFrom == <<
  "À", "Á", "Â", "Ã", "Ä", "Å", "Æ", "Ç", "È", "É", "Ê", "Ë", "Ì", "Í",
  "Î", "Ï", "Ð", "Ñ", "Ò", "Ó", "Ô", "Õ", "Ö", "Ø", "Ù", "Ú", "Û", "Ü",
  "Ý", "Þ", "\\u0100", "\\u0102", "\\u0104", "\\u0106", "\\u0108",
  "\\u010A", "\\u010C", "\\u010E", "\\u0110", "\\u0112", "\\u0114",
  "\\u0116", "\\u0118", "\\u011A", "\\u011C", "\\u011E", "\\u0120",
  "\\u0122", "\\u0124", "\\u0126", "\\u0128", "\\u012A", "\\u012C",
  "\\u012E", "\\u0130", "\\u0132", "\\u0134", "\\u0136", "\\u0139",
  "\\u013B", "\\u013D", "\\u013F", "\\u0141", "\\u0143", "\\u0145",
  "\\u0147", "\\u014A", "\\u014C", "\\u014E", "\\u0150", "\\u0152",
  "\\u0154", "\\u0156", "\\u0158", "\\u015A", "\\u015C", "\\u015E",
  "\\u0160", "\\u0162", "\\u0164", "\\u0166", "\\u0168", "\\u016A",
  "\\u016C", "\\u016E", "\\u0170", "\\u0172", "\\u0174", "\\u0176",
  "\\u0178", "\\u0179", "\\u017B", "\\u017D", "Ɓ", "Ƃ", "Ƅ", "Ɔ", "Ƈ", "Ɖ",
  "Ɗ", "Ƌ", "Ǝ", "Ə", "Ɛ", "Ƒ", "Ɠ", "Ɣ", "Ɩ", "Ɨ", "Ƙ", "Ɯ", "Ɲ", "Ɵ",
  "Ơ", "Ƣ", "Ƥ", "Ʀ", "Ƨ", "Ʃ", "Ƭ", "Ʈ", "Ư", "Ʊ", "Ʋ", "Ƴ", "Ƶ", "Ʒ",
  "Ƹ", "Ƽ", "Ǆ", "ǅ", "Ǉ", "ǈ", "Ǌ", "ǋ", "Ǎ", "Ǐ", "Ǒ", "Ǔ", "Ǖ", "Ǘ",
  "Ǚ", "Ǜ", "Ǟ", "Ǡ", "Ǣ", "Ǥ", "Ǧ", "Ǩ", "Ǫ", "Ǭ", "Ǯ", "Ǳ", "ǲ", "Ǵ",
  "Ƕ", "Ƿ", "Ǹ", "Ǻ", "Ǽ", "Ǿ", "\\u0200", "\\u0202", "\\u0204", "\\u0206",
  "\\u0208", "\\u020A", "\\u020C", "\\u020E", "\\u0210", "\\u0212",
  "\\u0214", "\\u0216", "\\u0218", "\\u021A", "\\u021C", "\\u021E",
  "\\u0220", "\\u0222", "\\u0224", "\\u0226", "\\u0228", "\\u022A",
  "\\u022C", "\\u022E", "\\u0230", "\\u0232", "\\u023A", "\\u023B",
  "\\u023D", "\\u023E", "\\u0241", "\\u0243", "\\u0244", "\\u0245",
  "\\u0246", "\\u0248", "\\u024A", "\\u024C", "\\u024E", "\\u0370",
  "\\u0372", "\\u0376", "\\u037F", "Ά", "Έ", "Ή", "Ί", "Ό", "Ύ", "Ώ", "Α",
  "Β", "Γ", "Δ", "Ε", "Ζ", "Η", "Θ", "Ι", "Κ", "Λ", "Μ", "Ν", "Ξ", "Ο",
  "Π", "Ρ", "Σ", "Τ", "Υ", "Φ", "Χ", "Ψ", "Ω", "Ϊ", "Ϋ", "Ϗ", "Ϙ", "Ϛ",
  "Ϝ", "Ϟ", "Ϡ", "Ϣ", "Ϥ", "Ϧ", "Ϩ", "Ϫ", "Ϭ", "Ϯ", "ϴ", "Ϸ", "Ϲ", "Ϻ",
  "Ͻ", "Ͼ", "Ͽ", "\\u0400", "\\u0401", "\\u0402", "\\u0403", "\\u0404",
  "\\u0405", "\\u0406", "\\u0407", "\\u0408", "\\u0409", "\\u040A",
  "\\u040B", "\\u040C", "\\u040D", "\\u040E", "\\u040F", "\\u0410",
  "\\u0411", "\\u0412", "\\u0413", "\\u0414", "\\u0415", "\\u0416",
  "\\u0417", "\\u0418", "\\u0419", "\\u041A", "\\u041B", "\\u041C",
  "\\u041D", "\\u041E", "\\u041F", "\\u0420", "\\u0421", "\\u0422",
  "\\u0423", "\\u0424", "\\u0425", "\\u0426", "\\u0427", "\\u0428",
  "\\u0429", "\\u042A", "\\u042B", "\\u042C", "\\u042D", "\\u042E",
  "\\u042F", "\\u0460", "\\u0462", "\\u0464", "\\u0466", "\\u0468",
  "\\u046A", "\\u046C", "\\u046E", "\\u0470", "\\u0472", "\\u0474",
  "\\u0476", "\\u0478", "\\u047A", "\\u047C", "\\u047E", "Ҁ", "Ҋ", "Ҍ",
  "Ҏ", "Ґ", "Ғ", "Ҕ", "Җ", "Ҙ", "Қ", "Ҝ", "Ҟ", "Ҡ", "Ң", "Ҥ", "Ҧ", "Ҩ",
  "Ҫ", "Ҭ", "Ү", "Ұ", "Ҳ", "Ҵ", "Ҷ", "Ҹ", "Һ", "Ҽ", "Ҿ", "Ӏ", "Ӂ", "Ӄ",
  "Ӆ", "Ӈ", "Ӊ", "Ӌ", "Ӎ", "Ӑ", "Ӓ", "Ӕ", "Ӗ", "Ә", "Ӛ", "Ӝ", "Ӟ", "Ӡ",
  "Ӣ", "Ӥ", "Ӧ", "Ө", "Ӫ", "Ӭ", "Ӯ", "Ӱ", "Ӳ", "Ӵ", "Ӷ", "Ӹ", "Ӻ", "Ӽ",
  "Ӿ", "\\u0500", "\\u0502", "\\u0504", "\\u0506", "\\u0508", "\\u050A",
  "\\u050C", "\\u050E", "\\u0510", "\\u0512", "\\u0514", "\\u0516",
  "\\u0518", "\\u051A", "\\u051C", "\\u051E", "\\u0520", "\\u0522",
  "\\u0524", "\\u0526", "\\u0528", "\\u052A", "\\u052C", "\\u052E",
  "\\u0531", "\\u0532", "\\u0533", "\\u0534", "\\u0535", "\\u0536",
  "\\u0537", "\\u0538", "\\u0539", "\\u053A", "\\u053B", "\\u053C",
  "\\u053D", "\\u053E", "\\u053F", "\\u0540", "\\u0541", "\\u0542",
  "\\u0543", "\\u0544", "\\u0545", "\\u0546", "\\u0547", "\\u0548",
  "\\u0549", "\\u054A", "\\u054B", "\\u054C", "\\u054D", "\\u054E",
  "\\u054F", "\\u0550", "\\u0551", "\\u0552", "\\u0553", "\\u0554",
  "\\u0555", "\\u0556", "Ⴀ", "Ⴁ", "Ⴂ", "Ⴃ", "Ⴄ", "Ⴅ", "Ⴆ", "Ⴇ", "Ⴈ", "Ⴉ",
  "Ⴊ", "Ⴋ", "Ⴌ", "Ⴍ", "Ⴎ", "Ⴏ", "Ⴐ", "Ⴑ", "Ⴒ", "Ⴓ", "Ⴔ", "Ⴕ", "Ⴖ", "Ⴗ",
  "Ⴘ", "Ⴙ", "Ⴚ", "Ⴛ", "Ⴜ", "Ⴝ", "Ⴞ", "Ⴟ", "Ⴠ", "Ⴡ", "Ⴢ", "Ⴣ", "Ⴤ", "Ⴥ",
  "Ⴧ", "Ⴭ", "Ꭰ", "Ꭱ", "Ꭲ", "Ꭳ", "Ꭴ", "Ꭵ", "Ꭶ", "Ꭷ", "Ꭸ", "Ꭹ", "Ꭺ", "Ꭻ",
  "Ꭼ", "Ꭽ", "Ꭾ", "Ꭿ", "Ꮀ", "Ꮁ", "Ꮂ", "Ꮃ", "Ꮄ", "Ꮅ", "Ꮆ", "Ꮇ", "Ꮈ", "Ꮉ",
  "Ꮊ", "Ꮋ", "Ꮌ", "Ꮍ", "Ꮎ", "Ꮏ", "Ꮐ", "Ꮑ", "Ꮒ", "Ꮓ", "Ꮔ", "Ꮕ", "Ꮖ", "Ꮗ",
  "Ꮘ", "Ꮙ", "Ꮚ", "Ꮛ", "Ꮜ", "Ꮝ", "Ꮞ", "Ꮟ", "Ꮠ", "Ꮡ", "Ꮢ", "Ꮣ", "Ꮤ", "Ꮥ",
  "Ꮦ", "Ꮧ", "Ꮨ", "Ꮩ", "Ꮪ", "Ꮫ", "Ꮬ", "Ꮭ", "Ꮮ", "Ꮯ", "Ꮰ", "Ꮱ", "Ꮲ", "Ꮳ",
  "Ꮴ", "Ꮵ", "Ꮶ", "Ꮷ", "Ꮸ", "Ꮹ", "Ꮺ", "Ꮻ", "Ꮼ", "Ꮽ", "Ꮾ", "Ꮿ", "Ᏸ", "Ᏹ",
  "Ᏺ", "Ᏻ", "Ᏼ", "Ᏽ", "Ᲊ", "Ა", "Ბ", "Გ", "Დ", "Ე", "Ვ", "Ზ", "Თ", "Ი",
  "Კ", "Ლ", "Მ", "Ნ", "Ო", "Პ", "Ჟ", "Რ", "Ს", "Ტ", "Უ", "Ფ", "Ქ", "Ღ",
  "Ყ", "Შ", "Ჩ", "Ც", "Ძ", "Წ", "Ჭ", "Ხ", "Ჯ", "Ჰ", "Ჱ", "Ჲ", "Ჳ", "Ჴ",
  "Ჵ", "Ჶ", "Ჷ", "Ჸ", "Ჹ", "Ჺ", "Ჽ", "Ჾ", "Ჿ", "\\u1E00", "\\u1E02",
  "\\u1E04", "\\u1E06", "\\u1E08", "\\u1E0A", "\\u1E0C", "\\u1E0E",
  "\\u1E10", "\\u1E12", "\\u1E14", "\\u1E16", "\\u1E18", "\\u1E1A",
  "\\u1E1C", "\\u1E1E", "\\u1E20", "\\u1E22", "\\u1E24", "\\u1E26",
  "\\u1E28", "\\u1E2A", "\\u1E2C", "\\u1E2E", "\\u1E30", "\\u1E32",
  "\\u1E34", "\\u1E36", "\\u1E38", "\\u1E3A", "\\u1E3C", "\\u1E3E",
  "\\u1E40", "\\u1E42", "\\u1E44", "\\u1E46", "\\u1E48", "\\u1E4A",
  "\\u1E4C", "\\u1E4E", "\\u1E50", "\\u1E52", "\\u1E54", "\\u1E56",
  "\\u1E58", "\\u1E5A", "\\u1E5C", "\\u1E5E", "\\u1E60", "\\u1E62",
  "\\u1E64", "\\u1E66", "\\u1E68", "\\u1E6A", "\\u1E6C", "\\u1E6E",
  "\\u1E70", "\\u1E72", "\\u1E74", "\\u1E76", "\\u1E78", "\\u1E7A",
  "\\u1E7C", "\\u1E7E", "Ẁ", "Ẃ", "Ẅ", "Ẇ", "Ẉ", "Ẋ", "Ẍ", "Ẏ", "Ẑ", "Ẓ",
  "Ẕ", "ẞ", "Ạ", "Ả", "Ấ", "Ầ", "Ẩ", "Ẫ", "Ậ", "Ắ", "Ằ", "Ẳ", "Ẵ", "Ặ",
  "Ẹ", "Ẻ", "Ẽ", "Ế", "Ề", "Ể", "Ễ", "Ệ", "Ỉ", "Ị", "Ọ", "Ỏ", "Ố", "Ồ",
  "Ổ", "Ỗ", "Ộ", "Ớ", "Ờ", "Ở", "Ỡ", "Ợ", "Ụ", "Ủ", "Ứ", "Ừ", "Ử", "Ữ",
  "Ự", "Ỳ", "Ỵ", "Ỷ", "Ỹ", "Ỻ", "Ỽ", "Ỿ", "\\u1F08", "\\u1F09", "\\u1F0A",
  "\\u1F0B", "\\u1F0C", "\\u1F0D", "\\u1F0E", "\\u1F0F", "\\u1F18",
  "\\u1F19", "\\u1F1A", "\\u1F1B", "\\u1F1C", "\\u1F1D", "\\u1F28",
  "\\u1F29", "\\u1F2A", "\\u1F2B", "\\u1F2C", "\\u1F2D", "\\u1F2E",
  "\\u1F2F", "\\u1F38", "\\u1F39", "\\u1F3A", "\\u1F3B", "\\u1F3C",
  "\\u1F3D", "\\u1F3E", "\\u1F3F", "\\u1F48", "\\u1F49", "\\u1F4A",
  "\\u1F4B", "\\u1F4C", "\\u1F4D", "\\u1F59", "\\u1F5B", "\\u1F5D",
  "\\u1F5F", "\\u1F68", "\\u1F69", "\\u1F6A", "\\u1F6B", "\\u1F6C",
  "\\u1F6D", "\\u1F6E", "\\u1F6F", "ᾈ", "ᾉ", "ᾊ", "ᾋ", "ᾌ", "ᾍ", "ᾎ", "ᾏ",
  "ᾘ", "ᾙ", "ᾚ", "ᾛ", "ᾜ", "ᾝ", "ᾞ", "ᾟ", "ᾨ", "ᾩ", "ᾪ", "ᾫ", "ᾬ", "ᾭ",
  "ᾮ", "ᾯ", "Ᾰ", "Ᾱ", "Ὰ", "Ά", "ᾼ", "Ὲ", "Έ", "Ὴ", "Ή", "ῌ", "Ῐ", "Ῑ",
  "Ὶ", "Ί", "Ῠ", "Ῡ", "Ὺ", "Ύ", "Ῥ", "Ὸ", "Ό", "Ὼ", "Ώ", "ῼ", "\\u2126",
  "\\u212A", "\\u212B", "\\u2132", "\\u2160", "\\u2161", "\\u2162",
  "\\u2163", "\\u2164", "\\u2165", "\\u2166", "\\u2167", "\\u2168",
  "\\u2169", "\\u216A", "\\u216B", "\\u216C", "\\u216D", "\\u216E",
  "\\u216F", "Ↄ", "Ⓐ", "Ⓑ", "Ⓒ", "Ⓓ", "Ⓔ", "Ⓕ", "Ⓖ", "Ⓗ", "Ⓘ", "Ⓙ", "Ⓚ",
  "Ⓛ", "Ⓜ", "Ⓝ", "Ⓞ", "Ⓟ", "Ⓠ", "Ⓡ", "Ⓢ", "Ⓣ", "Ⓤ", "Ⓥ", "Ⓦ", "Ⓧ", "Ⓨ",
  "Ⓩ", "\\u2C00", "\\u2C01", "\\u2C02", "\\u2C03", "\\u2C04", "\\u2C05",
  "\\u2C06", "\\u2C07", "\\u2C08", "\\u2C09", "\\u2C0A", "\\u2C0B",
  "\\u2C0C", "\\u2C0D", "\\u2C0E", "\\u2C0F", "\\u2C10", "\\u2C11",
  "\\u2C12", "\\u2C13", "\\u2C14", "\\u2C15", "\\u2C16", "\\u2C17",
  "\\u2C18", "\\u2C19", "\\u2C1A", "\\u2C1B", "\\u2C1C", "\\u2C1D",
  "\\u2C1E", "\\u2C1F", "\\u2C20", "\\u2C21", "\\u2C22", "\\u2C23",
  "\\u2C24", "\\u2C25", "\\u2C26", "\\u2C27", "\\u2C28", "\\u2C29",
  "\\u2C2A", "\\u2C2B", "\\u2C2C", "\\u2C2D", "\\u2C2E", "\\u2C2F",
  "\\u2C60", "\\u2C62", "\\u2C63", "\\u2C64", "\\u2C67", "\\u2C69",
  "\\u2C6B", "\\u2C6D", "\\u2C6E", "\\u2C6F", "\\u2C70", "\\u2C72",
  "\\u2C75", "\\u2C7E", "\\u2C7F", "Ⲁ", "Ⲃ", "Ⲅ", "Ⲇ", "Ⲉ", "Ⲋ", "Ⲍ", "Ⲏ",
  "Ⲑ", "Ⲓ", "Ⲕ", "Ⲗ", "Ⲙ", "Ⲛ", "Ⲝ", "Ⲟ", "Ⲡ", "Ⲣ", "Ⲥ", "Ⲧ", "Ⲩ", "Ⲫ",
  "Ⲭ", "Ⲯ", "Ⲱ", "Ⲳ", "Ⲵ", "Ⲷ", "Ⲹ", "Ⲻ", "Ⲽ", "Ⲿ", "Ⳁ", "Ⳃ", "Ⳅ", "Ⳇ",
  "Ⳉ", "Ⳋ", "Ⳍ", "Ⳏ", "Ⳑ", "Ⳓ", "Ⳕ", "Ⳗ", "Ⳙ", "Ⳛ", "Ⳝ", "Ⳟ", "Ⳡ", "Ⳣ",
  "Ⳬ", "Ⳮ", "Ⳳ", "\\uA640", "\\uA642", "\\uA644", "\\uA646", "\\uA648",
  "\\uA64A", "\\uA64C", "\\uA64E", "\\uA650", "\\uA652", "\\uA654",
  "\\uA656", "\\uA658", "\\uA65A", "\\uA65C", "\\uA65E", "\\uA660",
  "\\uA662", "\\uA664", "\\uA666", "\\uA668", "\\uA66A", "\\uA66C", "Ꚁ",
  "Ꚃ", "Ꚅ", "Ꚇ", "Ꚉ", "Ꚋ", "Ꚍ", "Ꚏ", "Ꚑ", "Ꚓ", "Ꚕ", "Ꚗ", "Ꚙ", "Ꚛ",
  "\\uA722", "\\uA724", "\\uA726", "\\uA728", "\\uA72A", "\\uA72C",
  "\\uA72E", "\\uA732", "\\uA734", "\\uA736", "\\uA738", "\\uA73A",
  "\\uA73C", "\\uA73E", "\\uA740", "\\uA742", "\\uA744", "\\uA746",
  "\\uA748", "\\uA74A", "\\uA74C", "\\uA74E", "\\uA750", "\\uA752",
  "\\uA754", "\\uA756", "\\uA758", "\\uA75A", "\\uA75C", "\\uA75E",
  "\\uA760", "\\uA762", "\\uA764", "\\uA766", "\\uA768", "\\uA76A",
  "\\uA76C", "\\uA76E", "\\uA779", "\\uA77B", "\\uA77D", "\\uA77E", "Ꞁ",
  "Ꞃ", "Ꞅ", "Ꞇ", "Ꞌ", "Ɥ", "Ꞑ", "Ꞓ", "Ꞗ", "Ꞙ", "Ꞛ", "Ꞝ", "Ꞟ", "Ꞡ", "Ꞣ",
  "Ꞥ", "Ꞧ", "Ꞩ", "Ɦ", "Ɜ", "Ɡ", "Ɬ", "Ɪ", "Ʞ", "Ʇ", "Ʝ", "Ꭓ", "Ꞵ", "Ꞷ",
  "Ꞹ", "Ꞻ", "Ꞽ", "Ꞿ", "Ꟁ", "Ꟃ", "Ꞔ", "Ʂ", "Ᶎ", "Ꟈ", "Ꟊ", "Ɤ", "Ꟍ", "꟎",
  "Ꟑ", "꟒", "꟔", "Ꟗ", "Ꟙ", "Ꟛ", "Ƛ", "Ꟶ", "\\uFF21", "\\uFF22", "\\uFF23",
  "\\uFF24", "\\uFF25", "\\uFF26", "\\uFF27", "\\uFF28", "\\uFF29",
  "\\uFF2A", "\\uFF2B", "\\uFF2C", "\\uFF2D", "\\uFF2E", "\\uFF2F",
  "\\uFF30", "\\uFF31", "\\uFF32", "\\uFF33", "\\uFF34", "\\uFF35",
  "\\uFF36", "\\uFF37", "\\uFF38", "\\uFF39", "\\uFF3A" >>

LowerTo == <<
  <<"à">>, <<"á">>, <<"â">>, <<"ã">>, <<"ä">>, <<"å">>, <<"æ">>, <<"ç">>,
  <<"è">>, <<"é">>, <<"ê">>, <<"ë">>, <<"ì">>, <<"í">>, <<"î">>, <<"ï">>,
  <<"ð">>, <<"ñ">>, <<"ò">>, <<"ó">>, <<"ô">>, <<"õ">>, <<"ö">>, <<"ø">>,
  <<"ù">>, <<"ú">>, <<"û">>, <<"ü">>, <<"ý">>, <<"þ">>, <<"\\u0101">>,
  <<"\\u0103">>, <<"\\u0105">>, <<"\\u0107">>, <<"\\u0109">>,
  <<"\\u010B">>, <<"\\u010D">>, <<"\\u010F">>, <<"\\u0111">>,
  <<"\\u0113">>, <<"\\u0115">>, <<"\\u0117">>, <<"\\u0119">>,
  <<"\\u011B">>, <<"\\u011D">>, <<"\\u011F">>, <<"\\u0121">>,
  <<"\\u0123">>, <<"\\u0125">>, <<"\\u0127">>, <<"\\u0129">>,
  <<"\\u012B">>, <<"\\u012D">>, <<"\\u012F">>, <<"i", "\\u0307">>,
  <<"\\u0133">>, <<"\\u0135">>, <<"\\u0137">>, <<"\\u013A">>,
  <<"\\u013C">>, <<"\\u013E">>, <<"\\u0140">>, <<"\\u0142">>,
  <<"\\u0144">>, <<"\\u0146">>, <<"\\u0148">>, <<"\\u014B">>,
  <<"\\u014D">>, <<"\\u014F">>, <<"\\u0151">>, <<"\\u0153">>,
  <<"\\u0155">>, <<"\\u0157">>, <<"\\u0159">>, <<"\\u015B">>,
  <<"\\u015D">>, <<"\\u015F">>, <<"\\u0161">>, <<"\\u0163">>,
  <<"\\u0165">>, <<"\\u0167">>, <<"\\u0169">>, <<"\\u016B">>,
  <<"\\u016D">>, <<"\\u016F">>, <<"\\u0171">>, <<"\\u0173">>,
  <<"\\u0175">>, <<"\\u0177">>, <<"ÿ">>, <<"\\u017A">>, <<"\\u017C">>,
  <<"\\u017E">>, <<"\\u0253">>, <<"ƃ">>, <<"ƅ">>, <<"\\u0254">>, <<"ƈ">>,
  <<"\\u0256">>, <<"\\u0257">>, <<"ƌ">>, <<"ǝ">>, <<"\\u0259">>,
  <<"\\u025B">>, <<"ƒ">>, <<"\\u0260">>, <<"\\u0263">>, <<"\\u0269">>,
  <<"\\u0268">>, <<"ƙ">>, <<"\\u026F">>, <<"\\u0272">>, <<"\\u0275">>,
  <<"ơ">>, <<"ƣ">>, <<"ƥ">>, <<"ʀ">>, <<"ƨ">>, <<"ʃ">>, <<"ƭ">>, <<"ʈ">>,
  <<"ư">>, <<"ʊ">>, <<"ʋ">>, <<"ƴ">>, <<"ƶ">>, <<"ʒ">>, <<"ƹ">>, <<"ƽ">>,
  <<"ǆ">>, <<"ǆ">>, <<"ǉ">>, <<"ǉ">>, <<"ǌ">>, <<"ǌ">>, <<"ǎ">>, <<"ǐ">>,
  <<"ǒ">>, <<"ǔ">>, <<"ǖ">>, <<"ǘ">>, <<"ǚ">>, <<"ǜ">>, <<"ǟ">>, <<"ǡ">>,
  <<"ǣ">>, <<"ǥ">>, <<"ǧ">>, <<"ǩ">>, <<"ǫ">>, <<"ǭ">>, <<"ǯ">>, <<"ǳ">>,
  <<"ǳ">>, <<"ǵ">>, <<"ƕ">>, <<"ƿ">>, <<"ǹ">>, <<"ǻ">>, <<"ǽ">>, <<"ǿ">>,
  <<"\\u0201">>, <<"\\u0203">>, <<"\\u0205">>, <<"\\u0207">>,
  <<"\\u0209">>, <<"\\u020B">>, <<"\\u020D">>, <<"\\u020F">>,
  <<"\\u0211">>, <<"\\u0213">>, <<"\\u0215">>, <<"\\u0217">>,
  <<"\\u0219">>, <<"\\u021B">>, <<"\\u021D">>, <<"\\u021F">>, <<"ƞ">>,
  <<"\\u0223">>, <<"\\u0225">>, <<"\\u0227">>, <<"\\u0229">>,
  <<"\\u022B">>, <<"\\u022D">>, <<"\\u022F">>, <<"\\u0231">>,
  <<"\\u0233">>, <<"\\u2C65">>, <<"\\u023C">>, <<"ƚ">>, <<"\\u2C66">>,
  <<"\\u0242">>, <<"ƀ">>, <<"ʉ">>, <<"ʌ">>, <<"\\u0247">>, <<"\\u0249">>,
  <<"\\u024B">>, <<"\\u024D">>, <<"\\u024F">>, <<"\\u0371">>,
  <<"\\u0373">>, <<"\\u0377">>, <<"ϳ">>, <<"ά">>, <<"έ">>, <<"ή">>,
  <<"ί">>, <<"ό">>, <<"ύ">>, <<"ώ">>, <<"α">>, <<"β">>, <<"γ">>, <<"δ">>,
  <<"ε">>, <<"ζ">>, <<"η">>, <<"θ">>, <<"ι">>, <<"κ">>, <<"λ">>, <<"μ">>,
  <<"ν">>, <<"ξ">>, <<"ο">>, <<"π">>, <<"ρ">>, <<"σ">>, <<"τ">>, <<"υ">>,
  <<"φ">>, <<"χ">>, <<"ψ">>, <<"ω">>, <<"ϊ">>, <<"ϋ">>, <<"ϗ">>, <<"ϙ">>,
  <<"ϛ">>, <<"ϝ">>, <<"ϟ">>, <<"ϡ">>, <<"ϣ">>, <<"ϥ">>, <<"ϧ">>, <<"ϩ">>,
  <<"ϫ">>, <<"ϭ">>, <<"ϯ">>, <<"θ">>, <<"ϸ">>, <<"ϲ">>, <<"ϻ">>,
  <<"\\u037B">>, <<"\\u037C">>, <<"\\u037D">>, <<"\\u0450">>,
  <<"\\u0451">>, <<"\\u0452">>, <<"\\u0453">>, <<"\\u0454">>,
  <<"\\u0455">>, <<"\\u0456">>, <<"\\u0457">>, <<"\\u0458">>,
  <<"\\u0459">>, <<"\\u045A">>, <<"\\u045B">>, <<"\\u045C">>,
  <<"\\u045D">>, <<"\\u045E">>, <<"\\u045F">>, <<"\\u0430">>,
  <<"\\u0431">>, <<"\\u0432">>, <<"\\u0433">>, <<"\\u0434">>,
  <<"\\u0435">>, <<"\\u0436">>, <<"\\u0437">>, <<"\\u0438">>,
  <<"\\u0439">>, <<"\\u043A">>, <<"\\u043B">>, <<"\\u043C">>,
  <<"\\u043D">>, <<"\\u043E">>, <<"\\u043F">>, <<"\\u0440">>,
  <<"\\u0441">>, <<"\\u0442">>, <<"\\u0443">>, <<"\\u0444">>,
  <<"\\u0445">>, <<"\\u0446">>, <<"\\u0447">>, <<"\\u0448">>,
  <<"\\u0449">>, <<"\\u044A">>, <<"\\u044B">>, <<"\\u044C">>,
  <<"\\u044D">>, <<"\\u044E">>, <<"\\u044F">>, <<"\\u0461">>,
  <<"\\u0463">>, <<"\\u0465">>, <<"\\u0467">>, <<"\\u0469">>,
  <<"\\u046B">>, <<"\\u046D">>, <<"\\u046F">>, <<"\\u0471">>,
  <<"\\u0473">>, <<"\\u0475">>, <<"\\u0477">>, <<"\\u0479">>,
  <<"\\u047B">>, <<"\\u047D">>, <<"\\u047F">>, <<"ҁ">>, <<"ҋ">>, <<"ҍ">>,
  <<"ҏ">>, <<"ґ">>, <<"ғ">>, <<"ҕ">>, <<"җ">>, <<"ҙ">>, <<"қ">>, <<"ҝ">>,
  <<"ҟ">>, <<"ҡ">>, <<"ң">>, <<"ҥ">>, <<"ҧ">>, <<"ҩ">>, <<"ҫ">>, <<"ҭ">>,
  <<"ү">>, <<"ұ">>, <<"ҳ">>, <<"ҵ">>, <<"ҷ">>, <<"ҹ">>, <<"һ">>, <<"ҽ">>,
  <<"ҿ">>, <<"ӏ">>, <<"ӂ">>, <<"ӄ">>, <<"ӆ">>, <<"ӈ">>, <<"ӊ">>, <<"ӌ">>,
  <<"ӎ">>, <<"ӑ">>, <<"ӓ">>, <<"ӕ">>, <<"ӗ">>, <<"ә">>, <<"ӛ">>, <<"ӝ">>,
  <<"ӟ">>, <<"ӡ">>, <<"ӣ">>, <<"ӥ">>, <<"ӧ">>, <<"ө">>, <<"ӫ">>, <<"ӭ">>,
  <<"ӯ">>, <<"ӱ">>, <<"ӳ">>, <<"ӵ">>, <<"ӷ">>, <<"ӹ">>, <<"ӻ">>, <<"ӽ">>,
  <<"ӿ">>, <<"\\u0501">>, <<"\\u0503">>, <<"\\u0505">>, <<"\\u0507">>,
  <<"\\u0509">>, <<"\\u050B">>, <<"\\u050D">>, <<"\\u050F">>,
  <<"\\u0511">>, <<"\\u0513">>, <<"\\u0515">>, <<"\\u0517">>,
  <<"\\u0519">>, <<"\\u051B">>, <<"\\u051D">>, <<"\\u051F">>,
  <<"\\u0521">>, <<"\\u0523">>, <<"\\u0525">>, <<"\\u0527">>,
  <<"\\u0529">>, <<"\\u052B">>, <<"\\u052D">>, <<"\\u052F">>,
  <<"\\u0561">>, <<"\\u0562">>, <<"\\u0563">>, <<"\\u0564">>,
  <<"\\u0565">>, <<"\\u0566">>, <<"\\u0567">>, <<"\\u0568">>,
  <<"\\u0569">>, <<"\\u056A">>, <<"\\u056B">>, <<"\\u056C">>,
  <<"\\u056D">>, <<"\\u056E">>, <<"\\u056F">>, <<"\\u0570">>,
  <<"\\u0571">>, <<"\\u0572">>, <<"\\u0573">>, <<"\\u0574">>,
  <<"\\u0575">>, <<"\\u0576">>, <<"\\u0577">>, <<"\\u0578">>,
  <<"\\u0579">>, <<"\\u057A">>, <<"\\u057B">>, <<"\\u057C">>,
  <<"\\u057D">>, <<"\\u057E">>, <<"\\u057F">>, <<"ր">>, <<"ց">>, <<"ւ">>,
  <<"փ">>, <<"ք">>, <<"օ">>, <<"ֆ">>, <<"\\u2D00">>, <<"\\u2D01">>,
  <<"\\u2D02">>, <<"\\u2D03">>, <<"\\u2D04">>, <<"\\u2D05">>,
  <<"\\u2D06">>, <<"\\u2D07">>, <<"\\u2D08">>, <<"\\u2D09">>,
  <<"\\u2D0A">>, <<"\\u2D0B">>, <<"\\u2D0C">>, <<"\\u2D0D">>,
  <<"\\u2D0E">>, <<"\\u2D0F">>, <<"\\u2D10">>, <<"\\u2D11">>,
  <<"\\u2D12">>, <<"\\u2D13">>, <<"\\u2D14">>, <<"\\u2D15">>,
  <<"\\u2D16">>, <<"\\u2D17">>, <<"\\u2D18">>, <<"\\u2D19">>,
  <<"\\u2D1A">>, <<"\\u2D1B">>, <<"\\u2D1C">>, <<"\\u2D1D">>,
  <<"\\u2D1E">>, <<"\\u2D1F">>, <<"\\u2D20">>, <<"\\u2D21">>,
  <<"\\u2D22">>, <<"\\u2D23">>, <<"\\u2D24">>, <<"\\u2D25">>,
  <<"\\u2D27">>, <<"\\u2D2D">>, <<"\\uAB70">>, <<"\\uAB71">>,
  <<"\\uAB72">>, <<"\\uAB73">>, <<"\\uAB74">>, <<"\\uAB75">>,
  <<"\\uAB76">>, <<"\\uAB77">>, <<"\\uAB78">>, <<"\\uAB79">>,
  <<"\\uAB7A">>, <<"\\uAB7B">>, <<"\\uAB7C">>, <<"\\uAB7D">>,
  <<"\\uAB7E">>, <<"\\uAB7F">>, <<"ꮀ">>, <<"ꮁ">>, <<"ꮂ">>, <<"ꮃ">>,
  <<"ꮄ">>, <<"ꮅ">>, <<"ꮆ">>, <<"ꮇ">>, <<"ꮈ">>, <<"ꮉ">>, <<"ꮊ">>, <<"ꮋ">>,
  <<"ꮌ">>, <<"ꮍ">>, <<"ꮎ">>, <<"ꮏ">>, <<"ꮐ">>, <<"ꮑ">>, <<"ꮒ">>, <<"ꮓ">>,
  <<"ꮔ">>, <<"ꮕ">>, <<"ꮖ">>, <<"ꮗ">>, <<"ꮘ">>, <<"ꮙ">>, <<"ꮚ">>, <<"ꮛ">>,
  <<"ꮜ">>, <<"ꮝ">>, <<"ꮞ">>, <<"ꮟ">>, <<"ꮠ">>, <<"ꮡ">>, <<"ꮢ">>, <<"ꮣ">>,
  <<"ꮤ">>, <<"ꮥ">>, <<"ꮦ">>, <<"ꮧ">>, <<"ꮨ">>, <<"ꮩ">>, <<"ꮪ">>, <<"ꮫ">>,
  <<"ꮬ">>, <<"ꮭ">>, <<"ꮮ">>, <<"ꮯ">>, <<"ꮰ">>, <<"ꮱ">>, <<"ꮲ">>, <<"ꮳ">>,
  <<"ꮴ">>, <<"ꮵ">>, <<"ꮶ">>, <<"ꮷ">>, <<"ꮸ">>, <<"ꮹ">>, <<"ꮺ">>, <<"ꮻ">>,
  <<"ꮼ">>, <<"ꮽ">>, <<"ꮾ">>, <<"ꮿ">>, <<"ᏸ">>, <<"ᏹ">>, <<"ᏺ">>, <<"ᏻ">>,
  <<"ᏼ">>, <<"ᏽ">>, <<"ᲊ">>, <<"ა">>, <<"ბ">>, <<"გ">>, <<"დ">>, <<"ე">>,
  <<"ვ">>, <<"ზ">>, <<"თ">>, <<"ი">>, <<"კ">>, <<"ლ">>, <<"მ">>, <<"ნ">>,
  <<"ო">>, <<"პ">>, <<"ჟ">>, <<"რ">>, <<"ს">>, <<"ტ">>, <<"უ">>, <<"ფ">>,
  <<"ქ">>, <<"ღ">>, <<"ყ">>, <<"შ">>, <<"ჩ">>, <<"ც">>, <<"ძ">>, <<"წ">>,
  <<"ჭ">>, <<"ხ">>, <<"ჯ">>, <<"ჰ">>, <<"ჱ">>, <<"ჲ">>, <<"ჳ">>, <<"ჴ">>,
  <<"ჵ">>, <<"ჶ">>, <<"ჷ">>, <<"ჸ">>, <<"ჹ">>, <<"ჺ">>, <<"ჽ">>, <<"ჾ">>,
  <<"ჿ">>, <<"\\u1E01">>, <<"\\u1E03">>, <<"\\u1E05">>, <<"\\u1E07">>,
  <<"\\u1E09">>, <<"\\u1E0B">>, <<"\\u1E0D">>, <<"\\u1E0F">>,
  <<"\\u1E11">>, <<"\\u1E13">>, <<"\\u1E15">>, <<"\\u1E17">>,
  <<"\\u1E19">>, <<"\\u1E1B">>, <<"\\u1E1D">>, <<"\\u1E1F">>,
  <<"\\u1E21">>, <<"\\u1E23">>, <<"\\u1E25">>, <<"\\u1E27">>,
  <<"\\u1E29">>, <<"\\u1E2B">>, <<"\\u1E2D">>, <<"\\u1E2F">>,
  <<"\\u1E31">>, <<"\\u1E33">>, <<"\\u1E35">>, <<"\\u1E37">>,
  <<"\\u1E39">>, <<"\\u1E3B">>, <<"\\u1E3D">>, <<"\\u1E3F">>,
  <<"\\u1E41">>, <<"\\u1E43">>, <<"\\u1E45">>, <<"\\u1E47">>,
  <<"\\u1E49">>, <<"\\u1E4B">>, <<"\\u1E4D">>, <<"\\u1E4F">>,
  <<"\\u1E51">>, <<"\\u1E53">>, <<"\\u1E55">>, <<"\\u1E57">>,
  <<"\\u1E59">>, <<"\\u1E5B">>, <<"\\u1E5D">>, <<"\\u1E5F">>,
  <<"\\u1E61">>, <<"\\u1E63">>, <<"\\u1E65">>, <<"\\u1E67">>,
  <<"\\u1E69">>, <<"\\u1E6B">>, <<"\\u1E6D">>, <<"\\u1E6F">>,
  <<"\\u1E71">>, <<"\\u1E73">>, <<"\\u1E75">>, <<"\\u1E77">>,
  <<"\\u1E79">>, <<"\\u1E7B">>, <<"\\u1E7D">>, <<"\\u1E7F">>, <<"ẁ">>,
  <<"ẃ">>, <<"ẅ">>, <<"ẇ">>, <<"ẉ">>, <<"ẋ">>, <<"ẍ">>, <<"ẏ">>, <<"ẑ">>,
  <<"ẓ">>, <<"ẕ">>, <<"ß">>, <<"ạ">>, <<"ả">>, <<"ấ">>, <<"ầ">>, <<"ẩ">>,
  <<"ẫ">>, <<"ậ">>, <<"ắ">>, <<"ằ">>, <<"ẳ">>, <<"ẵ">>, <<"ặ">>, <<"ẹ">>,
  <<"ẻ">>, <<"ẽ">>, <<"ế">>, <<"ề">>, <<"ể">>, <<"ễ">>, <<"ệ">>, <<"ỉ">>,
  <<"ị">>, <<"ọ">>, <<"ỏ">>, <<"ố">>, <<"ồ">>, <<"ổ">>, <<"ỗ">>, <<"ộ">>,
  <<"ớ">>, <<"ờ">>, <<"ở">>, <<"ỡ">>, <<"ợ">>, <<"ụ">>, <<"ủ">>, <<"ứ">>,
  <<"ừ">>, <<"ử">>, <<"ữ">>, <<"ự">>, <<"ỳ">>, <<"ỵ">>, <<"ỷ">>, <<"ỹ">>,
  <<"ỻ">>, <<"ỽ">>, <<"ỿ">>, <<"\\u1F00">>, <<"\\u1F01">>, <<"\\u1F02">>,
  <<"\\u1F03">>, <<"\\u1F04">>, <<"\\u1F05">>, <<"\\u1F06">>,
  <<"\\u1F07">>, <<"\\u1F10">>, <<"\\u1F11">>, <<"\\u1F12">>,
  <<"\\u1F13">>, <<"\\u1F14">>, <<"\\u1F15">>, <<"\\u1F20">>,
  <<"\\u1F21">>, <<"\\u1F22">>, <<"\\u1F23">>, <<"\\u1F24">>,
  <<"\\u1F25">>, <<"\\u1F26">>, <<"\\u1F27">>, <<"\\u1F30">>,
  <<"\\u1F31">>, <<"\\u1F32">>, <<"\\u1F33">>, <<"\\u1F34">>,
  <<"\\u1F35">>, <<"\\u1F36">>, <<"\\u1F37">>, <<"\\u1F40">>,
  <<"\\u1F41">>, <<"\\u1F42">>, <<"\\u1F43">>, <<"\\u1F44">>,
  <<"\\u1F45">>, <<"\\u1F51">>, <<"\\u1F53">>, <<"\\u1F55">>,
  <<"\\u1F57">>, <<"\\u1F60">>, <<"\\u1F61">>, <<"\\u1F62">>,
  <<"\\u1F63">>, <<"\\u1F64">>, <<"\\u1F65">>, <<"\\u1F66">>,
  <<"\\u1F67">>, <<"ᾀ">>, <<"ᾁ">>, <<"ᾂ">>, <<"ᾃ">>, <<"ᾄ">>, <<"ᾅ">>,
  <<"ᾆ">>, <<"ᾇ">>, <<"ᾐ">>, <<"ᾑ">>, <<"ᾒ">>, <<"ᾓ">>, <<"ᾔ">>, <<"ᾕ">>,
  <<"ᾖ">>, <<"ᾗ">>, <<"ᾠ">>, <<"ᾡ">>, <<"ᾢ">>, <<"ᾣ">>, <<"ᾤ">>, <<"ᾥ">>,
  <<"ᾦ">>, <<"ᾧ">>, <<"ᾰ">>, <<"ᾱ">>, <<"\\u1F70">>, <<"\\u1F71">>,
  <<"ᾳ">>, <<"\\u1F72">>, <<"\\u1F73">>, <<"\\u1F74">>, <<"\\u1F75">>,
  <<"ῃ">>, <<"ῐ">>, <<"ῑ">>, <<"\\u1F76">>, <<"\\u1F77">>, <<"ῠ">>,
  <<"ῡ">>, <<"\\u1F7A">>, <<"\\u1F7B">>, <<"ῥ">>, <<"\\u1F78">>,
  <<"\\u1F79">>, <<"\\u1F7C">>, <<"\\u1F7D">>, <<"ῳ">>, <<"ω">>, <<"k">>,
  <<"å">>, <<"\\u214E">>, <<"\\u2170">>, <<"\\u2171">>, <<"\\u2172">>,
  <<"\\u2173">>, <<"\\u2174">>, <<"\\u2175">>, <<"\\u2176">>,
  <<"\\u2177">>, <<"\\u2178">>, <<"\\u2179">>, <<"\\u217A">>,
  <<"\\u217B">>, <<"\\u217C">>, <<"\\u217D">>, <<"\\u217E">>,
  <<"\\u217F">>, <<"ↄ">>, <<"ⓐ">>, <<"ⓑ">>, <<"ⓒ">>, <<"ⓓ">>, <<"ⓔ">>,
  <<"ⓕ">>, <<"ⓖ">>, <<"ⓗ">>, <<"ⓘ">>, <<"ⓙ">>, <<"ⓚ">>, <<"ⓛ">>, <<"ⓜ">>,
  <<"ⓝ">>, <<"ⓞ">>, <<"ⓟ">>, <<"ⓠ">>, <<"ⓡ">>, <<"ⓢ">>, <<"ⓣ">>, <<"ⓤ">>,
  <<"ⓥ">>, <<"ⓦ">>, <<"ⓧ">>, <<"ⓨ">>, <<"ⓩ">>, <<"\\u2C30">>,
  <<"\\u2C31">>, <<"\\u2C32">>, <<"\\u2C33">>, <<"\\u2C34">>,
  <<"\\u2C35">>, <<"\\u2C36">>, <<"\\u2C37">>, <<"\\u2C38">>,
  <<"\\u2C39">>, <<"\\u2C3A">>, <<"\\u2C3B">>, <<"\\u2C3C">>,
  <<"\\u2C3D">>, <<"\\u2C3E">>, <<"\\u2C3F">>, <<"\\u2C40">>,
  <<"\\u2C41">>, <<"\\u2C42">>, <<"\\u2C43">>, <<"\\u2C44">>,
  <<"\\u2C45">>, <<"\\u2C46">>, <<"\\u2C47">>, <<"\\u2C48">>,
  <<"\\u2C49">>, <<"\\u2C4A">>, <<"\\u2C4B">>, <<"\\u2C4C">>,
  <<"\\u2C4D">>, <<"\\u2C4E">>, <<"\\u2C4F">>, <<"\\u2C50">>,
  <<"\\u2C51">>, <<"\\u2C52">>, <<"\\u2C53">>, <<"\\u2C54">>,
  <<"\\u2C55">>, <<"\\u2C56">>, <<"\\u2C57">>, <<"\\u2C58">>,
  <<"\\u2C59">>, <<"\\u2C5A">>, <<"\\u2C5B">>, <<"\\u2C5C">>,
  <<"\\u2C5D">>, <<"\\u2C5E">>, <<"\\u2C5F">>, <<"\\u2C61">>,
  <<"\\u026B">>, <<"\\u1D7D">>, <<"\\u027D">>, <<"\\u2C68">>,
  <<"\\u2C6A">>, <<"\\u2C6C">>, <<"\\u0251">>, <<"\\u0271">>,
  <<"\\u0250">>, <<"\\u0252">>, <<"\\u2C73">>, <<"\\u2C76">>,
  <<"\\u023F">>, <<"\\u0240">>, <<"ⲁ">>, <<"ⲃ">>, <<"ⲅ">>, <<"ⲇ">>,
  <<"ⲉ">>, <<"ⲋ">>, <<"ⲍ">>, <<"ⲏ">>, <<"ⲑ">>, <<"ⲓ">>, <<"ⲕ">>, <<"ⲗ">>,
  <<"ⲙ">>, <<"ⲛ">>, <<"ⲝ">>, <<"ⲟ">>, <<"ⲡ">>, <<"ⲣ">>, <<"ⲥ">>, <<"ⲧ">>,
  <<"ⲩ">>, <<"ⲫ">>, <<"ⲭ">>, <<"ⲯ">>, <<"ⲱ">>, <<"ⲳ">>, <<"ⲵ">>, <<"ⲷ">>,
  <<"ⲹ">>, <<"ⲻ">>, <<"ⲽ">>, <<"ⲿ">>, <<"ⳁ">>, <<"ⳃ">>, <<"ⳅ">>, <<"ⳇ">>,
  <<"ⳉ">>, <<"ⳋ">>, <<"ⳍ">>, <<"ⳏ">>, <<"ⳑ">>, <<"ⳓ">>, <<"ⳕ">>, <<"ⳗ">>,
  <<"ⳙ">>, <<"ⳛ">>, <<"ⳝ">>, <<"ⳟ">>, <<"ⳡ">>, <<"ⳣ">>, <<"ⳬ">>, <<"ⳮ">>,
  <<"ⳳ">>, <<"\\uA641">>, <<"\\uA643">>, <<"\\uA645">>, <<"\\uA647">>,
  <<"\\uA649">>, <<"\\uA64B">>, <<"\\uA64D">>, <<"\\uA64F">>,
  <<"\\uA651">>, <<"\\uA653">>, <<"\\uA655">>, <<"\\uA657">>,
  <<"\\uA659">>, <<"\\uA65B">>, <<"\\uA65D">>, <<"\\uA65F">>,
  <<"\\uA661">>, <<"\\uA663">>, <<"\\uA665">>, <<"\\uA667">>,
  <<"\\uA669">>, <<"\\uA66B">>, <<"\\uA66D">>, <<"ꚁ">>, <<"ꚃ">>, <<"ꚅ">>,
  <<"ꚇ">>, <<"ꚉ">>, <<"ꚋ">>, <<"ꚍ">>, <<"ꚏ">>, <<"ꚑ">>, <<"ꚓ">>, <<"ꚕ">>,
  <<"ꚗ">>, <<"ꚙ">>, <<"ꚛ">>, <<"\\uA723">>, <<"\\uA725">>, <<"\\uA727">>,
  <<"\\uA729">>, <<"\\uA72B">>, <<"\\uA72D">>, <<"\\uA72F">>,
  <<"\\uA733">>, <<"\\uA735">>, <<"\\uA737">>, <<"\\uA739">>,
  <<"\\uA73B">>, <<"\\uA73D">>, <<"\\uA73F">>, <<"\\uA741">>,
  <<"\\uA743">>, <<"\\uA745">>, <<"\\uA747">>, <<"\\uA749">>,
  <<"\\uA74B">>, <<"\\uA74D">>, <<"\\uA74F">>, <<"\\uA751">>,
  <<"\\uA753">>, <<"\\uA755">>, <<"\\uA757">>, <<"\\uA759">>,
  <<"\\uA75B">>, <<"\\uA75D">>, <<"\\uA75F">>, <<"\\uA761">>,
  <<"\\uA763">>, <<"\\uA765">>, <<"\\uA767">>, <<"\\uA769">>,
  <<"\\uA76B">>, <<"\\uA76D">>, <<"\\uA76F">>, <<"\\uA77A">>,
  <<"\\uA77C">>, <<"\\u1D79">>, <<"\\uA77F">>, <<"ꞁ">>, <<"ꞃ">>, <<"ꞅ">>,
  <<"ꞇ">>, <<"ꞌ">>, <<"\\u0265">>, <<"ꞑ">>, <<"ꞓ">>, <<"ꞗ">>, <<"ꞙ">>,
  <<"ꞛ">>, <<"ꞝ">>, <<"ꞟ">>, <<"ꞡ">>, <<"ꞣ">>, <<"ꞥ">>, <<"ꞧ">>, <<"ꞩ">>,
  <<"\\u0266">>, <<"\\u025C">>, <<"\\u0261">>, <<"\\u026C">>,
  <<"\\u026A">>, <<"ʞ">>, <<"ʇ">>, <<"ʝ">>, <<"\\uAB53">>, <<"ꞵ">>,
  <<"ꞷ">>, <<"ꞹ">>, <<"ꞻ">>, <<"ꞽ">>, <<"ꞿ">>, <<"ꟁ">>, <<"ꟃ">>, <<"ꞔ">>,
  <<"ʂ">>, <<"ᶎ">>, <<"ꟈ">>, <<"ꟊ">>, <<"\\u0264">>, <<"ꟍ">>, <<"꟏">>,
  <<"ꟑ">>, <<"ꟓ">>, <<"ꟕ">>, <<"ꟗ">>, <<"ꟙ">>, <<"ꟛ">>, <<"ƛ">>, <<"ꟶ">>,
  <<"\\uFF41">>, <<"\\uFF42">>, <<"\\uFF43">>, <<"\\uFF44">>,
  <<"\\uFF45">>, <<"\\uFF46">>, <<"\\uFF47">>, <<"\\uFF48">>,
  <<"\\uFF49">>, <<"\\uFF4A">>, <<"\\uFF4B">>, <<"\\uFF4C">>,
  <<"\\uFF4D">>, <<"\\uFF4E">>, <<"\\uFF4F">>, <<"\\uFF50">>,
  <<"\\uFF51">>, <<"\\uFF52">>, <<"\\uFF53">>, <<"\\uFF54">>,
  <<"\\uFF55">>, <<"\\uFF56">>, <<"\\uFF57">>, <<"\\uFF58">>,
  <<"\\uFF59">>, <<"\\uFF5A">> >>

UpperChanging == { UpperFrom[i] : i \in 1..Len(UpperFrom) }
LowerChanging == { LowerFrom[i] : i \in 1..Len(LowerFrom) }

\* the cased characters that neither mapping changes
OtherCased == {
  "ª", "º", "\\u0138", "ƍ", "ƪ", "ƫ", "ƺ", "ƾ", "\\u0221", "\\u0234",
  "\\u0235", "\\u0236", "\\u0237", "\\u0238", "\\u0239", "\\u0255",
  "\\u0258", "\\u025A", "\\u025D", "\\u025E", "\\u025F", "\\u0262",
  "\\u0267", "\\u026D", "\\u026E", "\\u0270", "\\u0273", "\\u0274",
  "\\u0276", "\\u0277", "\\u0278", "\\u0279", "\\u027A", "\\u027B",
  "\\u027C", "\\u027E", "\\u027F", "ʁ", "ʄ", "ʅ", "ʆ", "ʍ", "ʎ", "ʏ", "ʐ",
  "ʑ", "ʓ", "ʖ", "ʗ", "ʘ", "ʙ", "ʚ", "ʛ", "ʜ", "ʟ", "ʠ", "ʡ", "ʢ", "ʣ",
  "ʤ", "ʥ", "ʦ", "ʧ", "ʨ", "ʩ", "ʪ", "ʫ", "ʬ", "ʭ", "ʮ", "ʯ", "ϒ", "ϓ",
  "ϔ", "ϼ", "\\u0560", "ֈ", "\\u1D00", "\\u1D01", "\\u1D02", "\\u1D03",
  "\\u1D04", "\\u1D05", "\\u1D06", "\\u1D07", "\\u1D08", "\\u1D09",
  "\\u1D0A", "\\u1D0B", "\\u1D0C", "\\u1D0D", "\\u1D0E", "\\u1D0F",
  "\\u1D10", "\\u1D11", "\\u1D12", "\\u1D13", "\\u1D14", "\\u1D15",
  "\\u1D16", "\\u1D17", "\\u1D18", "\\u1D19", "\\u1D1A", "\\u1D1B",
  "\\u1D1C", "\\u1D1D", "\\u1D1E", "\\u1D1F", "\\u1D20", "\\u1D21",
  "\\u1D22", "\\u1D23", "\\u1D24", "\\u1D25", "\\u1D26", "\\u1D27",
  "\\u1D28", "\\u1D29", "\\u1D2A", "\\u1D2B", "\\u1D6B", "\\u1D6C",
  "\\u1D6D", "\\u1D6E", "\\u1D6F", "\\u1D70", "\\u1D71", "\\u1D72",
  "\\u1D73", "\\u1D74", "\\u1D75", "\\u1D76", "\\u1D77", "\\u1D7A",
  "\\u1D7B", "\\u1D7C", "\\u1D7E", "\\u1D7F", "ᶀ", "ᶁ", "ᶂ", "ᶃ", "ᶄ", "ᶅ",
  "ᶆ", "ᶇ", "ᶈ", "ᶉ", "ᶊ", "ᶋ", "ᶌ", "ᶍ", "ᶏ", "ᶐ", "ᶑ", "ᶒ", "ᶓ", "ᶔ",
  "ᶕ", "ᶖ", "ᶗ", "ᶘ", "ᶙ", "ᶚ", "ẜ", "ẝ", "ẟ", "\\u2102", "\\u2107",
  "\\u210A", "\\u210B", "\\u210C", "\\u210D", "\\u210E", "\\u210F",
  "\\u2110", "\\u2111", "\\u2112", "\\u2113", "\\u2115", "\\u2119",
  "\\u211A", "\\u211B", "\\u211C", "\\u211D", "\\u2124", "\\u2128",
  "\\u212C", "\\u212D", "\\u212F", "\\u2130", "\\u2131", "\\u2133",
  "\\u2134", "\\u2139", "\\u213C", "\\u213D", "\\u213E", "\\u213F",
  "\\u2145", "\\u2146", "\\u2147", "\\u2148", "\\u2149", "\\u2C71",
  "\\u2C74", "\\u2C77", "\\u2C78", "\\u2C79", "\\u2C7A", "\\u2C7B", "ⳤ",
  "\\uA730", "\\uA731", "\\uA771", "\\uA772", "\\uA773", "\\uA774",
  "\\uA775", "\\uA776", "\\uA777", "\\uA778", "ꞎ", "ꞕ", "ꞯ", "ꟺ",
  "\\uAB30", "\\uAB31", "\\uAB32", "\\uAB33", "\\uAB34", "\\uAB35",
  "\\uAB36", "\\uAB37", "\\uAB38", "\\uAB39", "\\uAB3A", "\\uAB3B",
  "\\uAB3C", "\\uAB3D", "\\uAB3E", "\\uAB3F", "\\uAB40", "\\uAB41",
  "\\uAB42", "\\uAB43", "\\uAB44", "\\uAB45", "\\uAB46", "\\uAB47",
  "\\uAB48", "\\uAB49", "\\uAB4A", "\\uAB4B", "\\uAB4C", "\\uAB4D",
  "\\uAB4E", "\\uAB4F", "\\uAB50", "\\uAB51", "\\uAB52", "\\uAB54",
  "\\uAB55", "\\uAB56", "\\uAB57", "\\uAB58", "\\uAB59", "\\uAB5A",
  "\\uAB60", "\\uAB61", "\\uAB62", "\\uAB63", "\\uAB64", "\\uAB65",
  "\\uAB66", "\\uAB67", "\\uAB68" }

\* the characters a word may hold between its letters: marks, modifiers,
\* format characters, the apostrophe and the like
CaseIgnorable == {
  "'", ".", ":", "^", "\\u0060", "¨", "­", "¯", "´", "·", "¸", "ʰ", "ʱ",
  "ʲ", "ʳ", "ʴ", "ʵ", "ʶ", "ʷ", "ʸ", "ʹ", "ʺ", "ʻ", "ʼ", "ʽ", "ʾ", "ʿ",
  "ˀ", "ˁ", "˂", "˃", "˄", "˅", "ˆ", "ˇ", "ˈ", "ˉ", "ˊ", "ˋ", "ˌ", "ˍ",
  "ˎ", "ˏ", "ː", "ˑ", "˒", "˓", "˔", "˕", "˖", "˗", "˘", "˙", "˚", "˛",
  "˜", "˝", "˞", "˟", "ˠ", "ˡ", "ˢ", "ˣ", "ˤ", "˥", "˦", "˧", "˨", "˩",
  "˪", "˫", "ˬ", "˭", "ˮ", "˯", "˰", "˱", "˲", "˳", "˴", "˵", "˶", "˷",
  "˸", "˹", "˺", "˻", "˼", "˽", "˾", "˿", "\\u0300", "\\u0301", "\\u0302",
  "\\u0303", "\\u0304", "\\u0305", "\\u0306", "\\u0307", "\\u0308",
  "\\u0309", "\\u030A", "\\u030B", "\\u030C", "\\u030D", "\\u030E",
  "\\u030F", "\\u0310", "\\u0311", "\\u0312", "\\u0313", "\\u0314",
  "\\u0315", "\\u0316", "\\u0317", "\\u0318", "\\u0319", "\\u031A",
  "\\u031B", "\\u031C", "\\u031D", "\\u031E", "\\u031F", "\\u0320",
  "\\u0321", "\\u0322", "\\u0323", "\\u0324", "\\u0325", "\\u0326",
  "\\u0327", "\\u0328", "\\u0329", "\\u032A", "\\u032B", "\\u032C",
  "\\u032D", "\\u032E", "\\u032F", "\\u0330", "\\u0331", "\\u0332",
  "\\u0333", "\\u0334", "\\u0335", "\\u0336", "\\u0337", "\\u0338",
  "\\u0339", "\\u033A", "\\u033B", "\\u033C", "\\u033D", "\\u033E",
  "\\u033F", "\\u0340", "\\u0341", "\\u0342", "\\u0343", "\\u0344",
  "\\u0345", "\\u0346", "\\u0347", "\\u0348", "\\u0349", "\\u034A",
  "\\u034B", "\\u034C", "\\u034D", "\\u034E", "\\u034F", "\\u0350",
  "\\u0351", "\\u0352", "\\u0353", "\\u0354", "\\u0355", "\\u0356",
  "\\u0357", "\\u0358", "\\u0359", "\\u035A", "\\u035B", "\\u035C",
  "\\u035D", "\\u035E", "\\u035F", "\\u0360", "\\u0361", "\\u0362",
  "\\u0363", "\\u0364", "\\u0365", "\\u0366", "\\u0367", "\\u0368",
  "\\u0369", "\\u036A", "\\u036B", "\\u036C", "\\u036D", "\\u036E",
  "\\u036F", "\\u0374", "\\u0375", "\\u037A", "΄", "΅", "·", "҃", "҄", "҅",
  "҆", "҇", "҈", "҉", "\\u0559", "\\u055F", "֑", "֒", "֓", "֔", "֕", "֖",
  "֗", "֘", "֙", "֚", "֛", "֜", "֝", "֞", "֟", "֠", "֡", "֢", "֣", "֤",
  "֥", "֦", "֧", "֨", "֩", "֪", "֫", "֬", "֭", "֮", "֯", "ְ", "ֱ", "ֲ",
  "ֳ", "ִ", "ֵ", "ֶ", "ַ", "ָ", "ֹ", "ֺ", "ֻ", "ּ", "ֽ", "ֿ", "ׁ", "ׂ",
  "ׄ", "ׅ", "ׇ", "״", "\\u0600", "\\u0601", "\\u0602", "\\u0603",
  "\\u0604", "\\u0605", "\\u0610", "\\u0611", "\\u0612", "\\u0613",
  "\\u0614", "\\u0615", "\\u0616", "\\u0617", "\\u0618", "\\u0619",
  "\\u061A", "\\u061C", "\\u0640", "\\u064B", "\\u064C", "\\u064D",
  "\\u064E", "\\u064F", "\\u0650", "\\u0651", "\\u0652", "\\u0653",
  "\\u0654", "\\u0655", "\\u0656", "\\u0657", "\\u0658", "\\u0659",
  "\\u065A", "\\u065B", "\\u065C", "\\u065D", "\\u065E", "\\u065F",
  "\\u0670", "ۖ", "ۗ", "ۘ", "ۙ", "ۚ", "ۛ", "ۜ", "۝", "۟", "۠", "ۡ", "ۢ",
  "ۣ", "ۤ", "ۥ", "ۦ", "ۧ", "ۨ", "۪", "۫", "۬", "ۭ", "\\u070F", "\\u0711",
  "\\u0730", "\\u0731", "\\u0732", "\\u0733", "\\u0734", "\\u0735",
  "\\u0736", "\\u0737", "\\u0738", "\\u0739", "\\u073A", "\\u073B",
  "\\u073C", "\\u073D", "\\u073E", "\\u073F", "\\u0740", "\\u0741",
  "\\u0742", "\\u0743", "\\u0744", "\\u0745", "\\u0746", "\\u0747",
  "\\u0748", "\\u0749", "\\u074A", "ަ", "ާ", "ި", "ީ", "ު", "ޫ", "ެ", "ޭ",
  "ޮ", "ޯ", "ް", "߫", "߬", "߭", "߮", "߯", "߰", "߱", "߲", "߳", "ߴ", "ߵ",
  "ߺ", "߽", "\\u0816", "\\u0817", "\\u0818", "\\u0819", "\\u081A",
  "\\u081B", "\\u081C", "\\u081D", "\\u081E", "\\u081F", "\\u0820",
  "\\u0821", "\\u0822", "\\u0823", "\\u0824", "\\u0825", "\\u0826",
  "\\u0827", "\\u0828", "\\u0829", "\\u082A", "\\u082B", "\\u082C",
  "\\u082D", "\\u0859", "\\u085A", "\\u085B", "࢈", "࢐", "࢑", "ࢗ", "࢘", "࢙",
  "࢚", "࢛", "࢜", "࢝", "࢞", "࢟", "ࣉ", "࣊", "࣋", "࣌", "࣍", "࣎", "࣏", "࣐",
  "࣑", "࣒", "࣓", "ࣔ", "ࣕ", "ࣖ", "ࣗ", "ࣘ", "ࣙ", "ࣚ", "ࣛ", "ࣜ", "ࣝ", "ࣞ",
  "ࣟ", "࣠", "࣡", "࣢", "ࣣ", "ࣤ", "ࣥ", "ࣦ", "ࣧ", "ࣨ", "ࣩ", "࣪", "࣫", "࣬",
  "࣭", "࣮", "࣯", "ࣰ", "ࣱ", "ࣲ", "ࣳ", "ࣴ", "ࣵ", "ࣶ", "ࣷ", "ࣸ", "ࣹ", "ࣺ",
  "ࣻ", "ࣼ", "ࣽ", "ࣾ", "ࣿ", "\\u0900", "\\u0901", "\\u0902", "\\u093A",
  "\\u093C", "\\u0941", "\\u0942", "\\u0943", "\\u0944", "\\u0945",
  "\\u0946", "\\u0947", "\\u0948", "\\u094D", "\\u0951", "\\u0952",
  "\\u0953", "\\u0954", "\\u0955", "\\u0956", "\\u0957", "\\u0962",
  "\\u0963", "\\u0971", "ঁ", "়", "ু", "ূ", "ৃ", "ৄ", "্", "ৢ", "ৣ", "৾",
  "\\u0A01", "\\u0A02", "\\u0A3C", "\\u0A41", "\\u0A42", "\\u0A47",
  "\\u0A48", "\\u0A4B", "\\u0A4C", "\\u0A4D", "\\u0A51", "\\u0A70",
  "\\u0A71", "\\u0A75", "ઁ", "ં", "઼", "ુ", "ૂ", "ૃ", "ૄ", "ૅ", "ે", "ૈ",
  "્", "ૢ", "ૣ", "ૺ", "ૻ", "ૼ", "૽", "૾", "૿", "\\u0B01", "\\u0B3C",
  "\\u0B3F", "\\u0B41", "\\u0B42", "\\u0B43", "\\u0B44", "\\u0B4D",
  "\\u0B55", "\\u0B56", "\\u0B62", "\\u0B63", "ஂ", "ீ", "்", "\\u0C00",
  "\\u0C04", "\\u0C3C", "\\u0C3E", "\\u0C3F", "\\u0C40", "\\u0C46",
  "\\u0C47", "\\u0C48", "\\u0C4A", "\\u0C4B", "\\u0C4C", "\\u0C4D",
  "\\u0C55", "\\u0C56", "\\u0C62", "\\u0C63", "ಁ", "಼", "ಿ", "ೆ", "ೌ", "್",
  "ೢ", "ೣ", "\\u0D00", "\\u0D01", "\\u0D3B", "\\u0D3C", "\\u0D41",
  "\\u0D42", "\\u0D43", "\\u0D44", "\\u0D4D", "\\u0D62", "\\u0D63", "ඁ",
  "්", "ි", "ී", "ු", "ූ", "\\u0E31", "\\u0E34", "\\u0E35", "\\u0E36",
  "\\u0E37", "\\u0E38", "\\u0E39", "\\u0E3A", "\\u0E46", "\\u0E47",
  "\\u0E48", "\\u0E49", "\\u0E4A", "\\u0E4B", "\\u0E4C", "\\u0E4D",
  "\\u0E4E", "ັ", "ິ", "ີ", "ຶ", "ື", "ຸ", "ູ", "຺", "ົ", "ຼ", "ໆ", "່",
  "້", "໊", "໋", "໌", "ໍ", "໎", "\\u0F18", "\\u0F19", "\\u0F35", "\\u0F37",
  "\\u0F39", "\\u0F71", "\\u0F72", "\\u0F73", "\\u0F74", "\\u0F75",
  "\\u0F76", "\\u0F77", "\\u0F78", "\\u0F79", "\\u0F7A", "\\u0F7B",
  "\\u0F7C", "\\u0F7D", "\\u0F7E", "ྀ", "ཱྀ", "ྂ", "ྃ", "྄", "྆", "྇", "ྍ",
  "ྎ", "ྏ", "ྐ", "ྑ", "ྒ", "ྒྷ", "ྔ", "ྕ", "ྖ", "ྗ", "ྙ", "ྚ", "ྛ", "ྜ",
  "ྜྷ", "ྞ", "ྟ", "ྠ", "ྡ", "ྡྷ", "ྣ", "ྤ", "ྥ", "ྦ", "ྦྷ", "ྨ", "ྩ", "ྪ",
  "ྫ", "ྫྷ", "ྭ", "ྮ", "ྯ", "ྰ", "ྱ", "ྲ", "ླ", "ྴ", "ྵ", "ྶ", "ྷ", "ྸ",
  "ྐྵ", "ྺ", "ྻ", "ྼ", "࿆", "\\u102D", "\\u102E", "\\u102F", "\\u1030",
  "\\u1032", "\\u1033", "\\u1034", "\\u1035", "\\u1036", "\\u1037",
  "\\u1039", "\\u103A", "\\u103D", "\\u103E", "\\u1058", "\\u1059",
  "\\u105E", "\\u105F", "\\u1060", "\\u1071", "\\u1072", "\\u1073",
  "\\u1074", "ႂ", "ႅ", "ႆ", "ႍ", "ႝ", "ჼ", "\\u135D", "\\u135E", "\\u135F",
  "\\u1712", "\\u1713", "\\u1714", "\\u1732", "\\u1733", "\\u1752",
  "\\u1753", "\\u1772", "\\u1773", "឴", "឵", "ិ", "ី", "ឹ", "ឺ", "ុ", "ូ",
  "ួ", "ំ", "៉", "៊", "់", "៌", "៍", "៎", "៏", "័", "៑", "្", "៓", "ៗ",
  "៝", "\\u180B", "\\u180C", "\\u180D", "\\u180E", "\\u180F", "\\u1843",
  "ᢅ", "ᢆ", "ᢩ", "\\u1920", "\\u1921", "\\u1922", "\\u1927", "\\u1928",
  "\\u1932", "\\u1939", "\\u193A", "\\u193B", "\\u1A17", "\\u1A18",
  "\\u1A1B", "\\u1A56", "\\u1A58", "\\u1A59", "\\u1A5A", "\\u1A5B",
  "\\u1A5C", "\\u1A5D", "\\u1A5E", "\\u1A60", "\\u1A62", "\\u1A65",
  "\\u1A66", "\\u1A67", "\\u1A68", "\\u1A69", "\\u1A6A", "\\u1A6B",
  "\\u1A6C", "\\u1A73", "\\u1A74", "\\u1A75", "\\u1A76", "\\u1A77",
  "\\u1A78", "\\u1A79", "\\u1A7A", "\\u1A7B", "\\u1A7C", "\\u1A7F", "ᪧ",
  "᪰", "᪱", "᪲", "᪳", "᪴", "᪵", "᪶", "᪷", "᪸", "᪹", "᪺", "᪻", "᪼", "᪽",
  "᪾", "ᪿ", "ᫀ", "᫁", "᫂", "᫃", "᫄", "᫅", "᫆", "᫇", "᫈", "᫉", "᫊", "᫋",
  "ᫌ", "ᫍ", "ᫎ", "᫏", "᫐", "᫑", "᫒", "᫓", "᫔", "᫕", "᫖", "᫗", "᫘", "᫙",
  "᫚", "᫛", "᫜", "᫝", "᫠", "᫡", "᫢", "᫣", "᫤", "᫥", "᫦", "᫧", "᫨", "᫩",
  "᫪", "᫫", "\\u1B00", "\\u1B01", "\\u1B02", "\\u1B03", "\\u1B34",
  "\\u1B36", "\\u1B37", "\\u1B38", "\\u1B39", "\\u1B3A", "\\u1B3C",
  "\\u1B42", "\\u1B6B", "\\u1B6C", "\\u1B6D", "\\u1B6E", "\\u1B6F",
  "\\u1B70", "\\u1B71", "\\u1B72", "\\u1B73", "ᮀ", "ᮁ", "ᮢ", "ᮣ", "ᮤ", "ᮥ",
  "ᮨ", "ᮩ", "᮫", "ᮬ", "ᮭ", "᯦", "ᯨ", "ᯩ", "ᯭ", "ᯯ", "ᯰ", "ᯱ", "\\u1C2C",
  "\\u1C2D", "\\u1C2E", "\\u1C2F", "\\u1C30", "\\u1C31", "\\u1C32",
  "\\u1C33", "\\u1C36", "\\u1C37", "\\u1C78", "\\u1C79", "\\u1C7A",
  "\\u1C7B", "\\u1C7C", "\\u1C7D", "᳐", "᳑", "᳒", "᳔", "᳕", "᳖", "᳗", "᳘",
  "᳙", "᳚", "᳛", "᳜", "᳝", "᳞", "᳟", "᳠", "᳢", "᳣", "᳤", "᳥", "᳦", "᳧",
  "᳨", "᳭", "᳴", "᳸", "᳹", "\\u1D2C", "\\u1D2D", "\\u1D2E", "\\u1D2F",
  "\\u1D30", "\\u1D31", "\\u1D32", "\\u1D33", "\\u1D34", "\\u1D35",
  "\\u1D36", "\\u1D37", "\\u1D38", "\\u1D39", "\\u1D3A", "\\u1D3B",
  "\\u1D3C", "\\u1D3D", "\\u1D3E", "\\u1D3F", "\\u1D40", "\\u1D41",
  "\\u1D42", "\\u1D43", "\\u1D44", "\\u1D45", "\\u1D46", "\\u1D47",
  "\\u1D48", "\\u1D49", "\\u1D4A", "\\u1D4B", "\\u1D4C", "\\u1D4D",
  "\\u1D4E", "\\u1D4F", "\\u1D50", "\\u1D51", "\\u1D52", "\\u1D53",
  "\\u1D54", "\\u1D55", "\\u1D56", "\\u1D57", "\\u1D58", "\\u1D59",
  "\\u1D5A", "\\u1D5B", "\\u1D5C", "\\u1D5D", "\\u1D5E", "\\u1D5F",
  "\\u1D60", "\\u1D61", "\\u1D62", "\\u1D63", "\\u1D64", "\\u1D65",
  "\\u1D66", "\\u1D67", "\\u1D68", "\\u1D69", "\\u1D6A", "\\u1D78", "ᶛ",
  "ᶜ", "ᶝ", "ᶞ", "ᶟ", "ᶠ", "ᶡ", "ᶢ", "ᶣ", "ᶤ", "ᶥ", "ᶦ", "ᶧ", "ᶨ", "ᶩ",
  "ᶪ", "ᶫ", "ᶬ", "ᶭ", "ᶮ", "ᶯ", "ᶰ", "ᶱ", "ᶲ", "ᶳ", "ᶴ", "ᶵ", "ᶶ", "ᶷ",
  "ᶸ", "ᶹ", "ᶺ", "ᶻ", "ᶼ", "ᶽ", "ᶾ", "ᶿ", "᷀", "᷁", "᷂", "᷃", "᷄", "᷅",
  "᷆", "᷇", "᷈", "᷉", "᷊", "᷋", "᷌", "᷍", "᷎", "᷏", "᷐", "᷑", "᷒", "ᷓ",
  "ᷔ", "ᷕ", "ᷖ", "ᷗ", "ᷘ", "ᷙ", "ᷚ", "ᷛ", "ᷜ", "ᷝ", "ᷞ", "ᷟ", "ᷠ", "ᷡ",
  "ᷢ", "ᷣ", "ᷤ", "ᷥ", "ᷦ", "ᷧ", "ᷨ", "ᷩ", "ᷪ", "ᷫ", "ᷬ", "ᷭ", "ᷮ", "ᷯ",
  "ᷰ", "ᷱ", "ᷲ", "ᷳ", "ᷴ", "᷵", "᷶", "᷷", "᷸", "᷹", "᷺", "᷻", "᷼", "᷽",
  "᷾", "᷿", "᾽", "᾿", "῀", "῁", "῍", "῎", "῏", "῝", "῞", "῟", "῭", "΅",
  "`", "´", "῾", "\\u200B", "\\u200C", "\\u200D", "\\u200E", "\\u200F",
  "\\u2018", "\\u2019", "\\u2024", "\\u2027", "\\u202A", "\\u202B",
  "\\u202C", "\\u202D", "\\u202E", "\\u2060", "\\u2061", "\\u2062",
  "\\u2063", "\\u2064", "\\u2066", "\\u2067", "\\u2068", "\\u2069",
  "\\u206A", "\\u206B", "\\u206C", "\\u206D", "\\u206E", "\\u206F",
  "\\u2071", "\\u207F", "ₐ", "ₑ", "ₒ", "ₓ", "ₔ", "ₕ", "ₖ", "ₗ", "ₘ", "ₙ",
  "ₚ", "ₛ", "ₜ", "⃐", "⃑", "⃒", "⃓", "⃔", "⃕", "⃖", "⃗", "⃘", "⃙", "⃚",
  "⃛", "⃜", "⃝", "⃞", "⃟", "⃠", "⃡", "⃢", "⃣", "⃤", "⃥", "⃦", "⃧", "⃨",
  "⃩", "⃪", "⃫", "⃬", "⃭", "⃮", "⃯", "⃰", "\\u2C7C", "\\u2C7D", "⳯", "⳰",
  "⳱", "\\u2D6F", "\\u2D7F", "ⷠ", "ⷡ", "ⷢ", "ⷣ", "ⷤ", "ⷥ", "ⷦ", "ⷧ", "ⷨ",
  "ⷩ", "ⷪ", "ⷫ", "ⷬ", "ⷭ", "ⷮ", "ⷯ", "ⷰ", "ⷱ", "ⷲ", "ⷳ", "ⷴ", "ⷵ", "ⷶ",
  "ⷷ", "ⷸ", "ⷹ", "ⷺ", "ⷻ", "ⷼ", "ⷽ", "ⷾ", "ⷿ", "\\u2E2F", "\\u3005",
  "\\u302A", "\\u302B", "\\u302C", "\\u302D", "\\u3031", "\\u3032",
  "\\u3033", "\\u3034", "\\u3035", "\\u303B", "゙", "゚", "゛", "゜", "ゝ", "ゞ",
  "ー", "ヽ", "ヾ", "\\uA015", "ꓸ", "ꓹ", "ꓺ", "ꓻ", "ꓼ", "ꓽ", "\\uA60C",
  "\\uA66F", "\\uA670", "\\uA671", "\\uA672", "\\uA674", "\\uA675",
  "\\uA676", "\\uA677", "\\uA678", "\\uA679", "\\uA67A", "\\uA67B",
  "\\uA67C", "\\uA67D", "\\uA67F", "ꚜ", "ꚝ", "ꚞ", "ꚟ", "꛰", "꛱", "\\uA700",
  "\\uA701", "\\uA702", "\\uA703", "\\uA704", "\\uA705", "\\uA706",
  "\\uA707", "\\uA708", "\\uA709", "\\uA70A", "\\uA70B", "\\uA70C",
  "\\uA70D", "\\uA70E", "\\uA70F", "\\uA710", "\\uA711", "\\uA712",
  "\\uA713", "\\uA714", "\\uA715", "\\uA716", "\\uA717", "\\uA718",
  "\\uA719", "\\uA71A", "\\uA71B", "\\uA71C", "\\uA71D", "\\uA71E",
  "\\uA71F", "\\uA720", "\\uA721", "\\uA770", "ꞈ", "꞉", "꞊", "꟱", "ꟲ", "ꟳ",
  "ꟴ", "ꟸ", "ꟹ", "\\uA802", "\\uA806", "\\uA80B", "\\uA825", "\\uA826",
  "\\uA82C", "꣄", "ꣅ", "꣠", "꣡", "꣢", "꣣", "꣤", "꣥", "꣦", "꣧", "꣨", "꣩",
  "꣪", "꣫", "꣬", "꣭", "꣮", "꣯", "꣰", "꣱", "ꣿ", "\\uA926", "\\uA927",
  "\\uA928", "\\uA929", "\\uA92A", "\\uA92B", "\\uA92C", "\\uA92D",
  "\\uA947", "\\uA948", "\\uA949", "\\uA94A", "\\uA94B", "\\uA94C",
  "\\uA94D", "\\uA94E", "\\uA94F", "\\uA950", "\\uA951", "ꦀ", "ꦁ", "ꦂ",
  "꦳", "ꦶ", "ꦷ", "ꦸ", "ꦹ", "ꦼ", "ꦽ", "ꧏ", "ꧥ", "ꧦ", "\\uAA29", "\\uAA2A",
  "\\uAA2B", "\\uAA2C", "\\uAA2D", "\\uAA2E", "\\uAA31", "\\uAA32",
  "\\uAA35", "\\uAA36", "\\uAA43", "\\uAA4C", "\\uAA70", "\\uAA7C", "ꪰ",
  "ꪲ", "ꪳ", "ꪴ", "ꪷ", "ꪸ", "ꪾ", "꪿", "꫁", "ꫝ", "ꫬ", "ꫭ", "ꫳ", "ꫴ", "꫶",
  "\\uAB5B", "\\uAB5C", "\\uAB5D", "\\uAB5E", "\\uAB5F", "\\uAB69",
  "\\uAB6A", "\\uAB6B", "ꯥ", "ꯨ", "꯭", "\\uFB1E", "﮲", "﮳", "﮴", "﮵", "﮶",
  "﮷", "﮸", "﮹", "﮺", "﮻", "﮼", "﮽", "﮾", "﮿", "﯀", "﯁", "﯂", "\\uFE00",
  "\\uFE01", "\\uFE02", "\\uFE03", "\\uFE04", "\\uFE05", "\\uFE06",
  "\\uFE07", "\\uFE08", "\\uFE09", "\\uFE0A", "\\uFE0B", "\\uFE0C",
  "\\uFE0D", "\\uFE0E", "\\uFE0F", "\\uFE13", "\\uFE20", "\\uFE21",
  "\\uFE22", "\\uFE23", "\\uFE24", "\\uFE25", "\\uFE26", "\\uFE27",
  "\\uFE28", "\\uFE29", "\\uFE2A", "\\uFE2B", "\\uFE2C", "\\uFE2D",
  "\\uFE2E", "\\uFE2F", "\\uFE52", "\\uFE55", "﻿", "\\uFF07", "\\uFF0E",
  "\\uFF1A", "\\uFF3E", "\\uFF40", "\\uFF70", "ﾞ", "ﾟ", "￣", "￹", "￺", "￻" }

(* Outside the Basic Multilingual Plane a character is two code units, a   *)
(* high surrogate and a low surrogate; the mappings read the pair as one     *)
(* code point.  The surrogates in their order:                               *)
HighSurrogates == <<
  "\\uD800", "\\uD801", "\\uD802", "\\uD803", "\\uD804", "\\uD805",
  "\\uD806", "\\uD807", "\\uD808", "\\uD809", "\\uD80A", "\\uD80B",
  "\\uD80C", "\\uD80D", "\\uD80E", "\\uD80F", "\\uD810", "\\uD811",
  "\\uD812", "\\uD813", "\\uD814", "\\uD815", "\\uD816", "\\uD817",
  "\\uD818", "\\uD819", "\\uD81A", "\\uD81B", "\\uD81C", "\\uD81D",
  "\\uD81E", "\\uD81F", "\\uD820", "\\uD821", "\\uD822", "\\uD823",
  "\\uD824", "\\uD825", "\\uD826", "\\uD827", "\\uD828", "\\uD829",
  "\\uD82A", "\\uD82B", "\\uD82C", "\\uD82D", "\\uD82E", "\\uD82F",
  "\\uD830", "\\uD831", "\\uD832", "\\uD833", "\\uD834", "\\uD835",
  "\\uD836", "\\uD837", "\\uD838", "\\uD839", "\\uD83A", "\\uD83B",
  "\\uD83C", "\\uD83D", "\\uD83E", "\\uD83F", "\\uD840", "\\uD841",
  "\\uD842", "\\uD843", "\\uD844", "\\uD845", "\\uD846", "\\uD847",
  "\\uD848", "\\uD849", "\\uD84A", "\\uD84B", "\\uD84C", "\\uD84D",
  "\\uD84E", "\\uD84F", "\\uD850", "\\uD851", "\\uD852", "\\uD853",
  "\\uD854", "\\uD855", "\\uD856", "\\uD857", "\\uD858", "\\uD859",
  "\\uD85A", "\\uD85B", "\\uD85C", "\\uD85D", "\\uD85E", "\\uD85F",
  "\\uD860", "\\uD861", "\\uD862", "\\uD863", "\\uD864", "\\uD865",
  "\\uD866", "\\uD867", "\\uD868", "\\uD869", "\\uD86A", "\\uD86B",
  "\\uD86C", "\\uD86D", "\\uD86E", "\\uD86F", "\\uD870", "\\uD871",
  "\\uD872", "\\uD873", "\\uD874", "\\uD875", "\\uD876", "\\uD877",
  "\\uD878", "\\uD879", "\\uD87A", "\\uD87B", "\\uD87C", "\\uD87D",
  "\\uD87E", "\\uD87F", "\\uD880", "\\uD881", "\\uD882", "\\uD883",
  "\\uD884", "\\uD885", "\\uD886", "\\uD887", "\\uD888", "\\uD889",
  "\\uD88A", "\\uD88B", "\\uD88C", "\\uD88D", "\\uD88E", "\\uD88F",
  "\\uD890", "\\uD891", "\\uD892", "\\uD893", "\\uD894", "\\uD895",
  "\\uD896", "\\uD897", "\\uD898", "\\uD899", "\\uD89A", "\\uD89B",
  "\\uD89C", "\\uD89D", "\\uD89E", "\\uD89F", "\\uD8A0", "\\uD8A1",
  "\\uD8A2", "\\uD8A3", "\\uD8A4", "\\uD8A5", "\\uD8A6", "\\uD8A7",
  "\\uD8A8", "\\uD8A9", "\\uD8AA", "\\uD8AB", "\\uD8AC", "\\uD8AD",
  "\\uD8AE", "\\uD8AF", "\\uD8B0", "\\uD8B1", "\\uD8B2", "\\uD8B3",
  "\\uD8B4", "\\uD8B5", "\\uD8B6", "\\uD8B7", "\\uD8B8", "\\uD8B9",
  "\\uD8BA", "\\uD8BB", "\\uD8BC", "\\uD8BD", "\\uD8BE", "\\uD8BF",
  "\\uD8C0", "\\uD8C1", "\\uD8C2", "\\uD8C3", "\\uD8C4", "\\uD8C5",
  "\\uD8C6", "\\uD8C7", "\\uD8C8", "\\uD8C9", "\\uD8CA", "\\uD8CB",
  "\\uD8CC", "\\uD8CD", "\\uD8CE", "\\uD8CF", "\\uD8D0", "\\uD8D1",
  "\\uD8D2", "\\uD8D3", "\\uD8D4", "\\uD8D5", "\\uD8D6", "\\uD8D7",
  "\\uD8D8", "\\uD8D9", "\\uD8DA", "\\uD8DB", "\\uD8DC", "\\uD8DD",
  "\\uD8DE", "\\uD8DF", "\\uD8E0", "\\uD8E1", "\\uD8E2", "\\uD8E3",
  "\\uD8E4", "\\uD8E5", "\\uD8E6", "\\uD8E7", "\\uD8E8", "\\uD8E9",
  "\\uD8EA", "\\uD8EB", "\\uD8EC", "\\uD8ED", "\\uD8EE", "\\uD8EF",
  "\\uD8F0", "\\uD8F1", "\\uD8F2", "\\uD8F3", "\\uD8F4", "\\uD8F5",
  "\\uD8F6", "\\uD8F7", "\\uD8F8", "\\uD8F9", "\\uD8FA", "\\uD8FB",
  "\\uD8FC", "\\uD8FD", "\\uD8FE", "\\uD8FF", "\\uD900", "\\uD901",
  "\\uD902", "\\uD903", "\\uD904", "\\uD905", "\\uD906", "\\uD907",
  "\\uD908", "\\uD909", "\\uD90A", "\\uD90B", "\\uD90C", "\\uD90D",
  "\\uD90E", "\\uD90F", "\\uD910", "\\uD911", "\\uD912", "\\uD913",
  "\\uD914", "\\uD915", "\\uD916", "\\uD917", "\\uD918", "\\uD919",
  "\\uD91A", "\\uD91B", "\\uD91C", "\\uD91D", "\\uD91E", "\\uD91F",
  "\\uD920", "\\uD921", "\\uD922", "\\uD923", "\\uD924", "\\uD925",
  "\\uD926", "\\uD927", "\\uD928", "\\uD929", "\\uD92A", "\\uD92B",
  "\\uD92C", "\\uD92D", "\\uD92E", "\\uD92F", "\\uD930", "\\uD931",
  "\\uD932", "\\uD933", "\\uD934", "\\uD935", "\\uD936", "\\uD937",
  "\\uD938", "\\uD939", "\\uD93A", "\\uD93B", "\\uD93C", "\\uD93D",
  "\\uD93E", "\\uD93F", "\\uD940", "\\uD941", "\\uD942", "\\uD943",
  "\\uD944", "\\uD945", "\\uD946", "\\uD947", "\\uD948", "\\uD949",
  "\\uD94A", "\\uD94B", "\\uD94C", "\\uD94D", "\\uD94E", "\\uD94F",
  "\\uD950", "\\uD951", "\\uD952", "\\uD953", "\\uD954", "\\uD955",
  "\\uD956", "\\uD957", "\\uD958", "\\uD959", "\\uD95A", "\\uD95B",
  "\\uD95C", "\\uD95D", "\\uD95E", "\\uD95F", "\\uD960", "\\uD961",
  "\\uD962", "\\uD963", "\\uD964", "\\uD965", "\\uD966", "\\uD967",
  "\\uD968", "\\uD969", "\\uD96A", "\\uD96B", "\\uD96C", "\\uD96D",
  "\\uD96E", "\\uD96F", "\\uD970", "\\uD971", "\\uD972", "\\uD973",
  "\\uD974", "\\uD975", "\\uD976", "\\uD977", "\\uD978", "\\uD979",
  "\\uD97A", "\\uD97B", "\\uD97C", "\\uD97D", "\\uD97E", "\\uD97F",
  "\\uD980", "\\uD981", "\\uD982", "\\uD983", "\\uD984", "\\uD985",
  "\\uD986", "\\uD987", "\\uD988", "\\uD989", "\\uD98A", "\\uD98B",
  "\\uD98C", "\\uD98D", "\\uD98E", "\\uD98F", "\\uD990", "\\uD991",
  "\\uD992", "\\uD993", "\\uD994", "\\uD995", "\\uD996", "\\uD997",
  "\\uD998", "\\uD999", "\\uD99A", "\\uD99B", "\\uD99C", "\\uD99D",
  "\\uD99E", "\\uD99F", "\\uD9A0", "\\uD9A1", "\\uD9A2", "\\uD9A3",
  "\\uD9A4", "\\uD9A5", "\\uD9A6", "\\uD9A7", "\\uD9A8", "\\uD9A9",
  "\\uD9AA", "\\uD9AB", "\\uD9AC", "\\uD9AD", "\\uD9AE", "\\uD9AF",
  "\\uD9B0", "\\uD9B1", "\\uD9B2", "\\uD9B3", "\\uD9B4", "\\uD9B5",
  "\\uD9B6", "\\uD9B7", "\\uD9B8", "\\uD9B9", "\\uD9BA", "\\uD9BB",
  "\\uD9BC", "\\uD9BD", "\\uD9BE", "\\uD9BF", "\\uD9C0", "\\uD9C1",
  "\\uD9C2", "\\uD9C3", "\\uD9C4", "\\uD9C5", "\\uD9C6", "\\uD9C7",
  "\\uD9C8", "\\uD9C9", "\\uD9CA", "\\uD9CB", "\\uD9CC", "\\uD9CD",
  "\\uD9CE", "\\uD9CF", "\\uD9D0", "\\uD9D1", "\\uD9D2", "\\uD9D3",
  "\\uD9D4", "\\uD9D5", "\\uD9D6", "\\uD9D7", "\\uD9D8", "\\uD9D9",
  "\\uD9DA", "\\uD9DB", "\\uD9DC", "\\uD9DD", "\\uD9DE", "\\uD9DF",
  "\\uD9E0", "\\uD9E1", "\\uD9E2", "\\uD9E3", "\\uD9E4", "\\uD9E5",
  "\\uD9E6", "\\uD9E7", "\\uD9E8", "\\uD9E9", "\\uD9EA", "\\uD9EB",
  "\\uD9EC", "\\uD9ED", "\\uD9EE", "\\uD9EF", "\\uD9F0", "\\uD9F1",
  "\\uD9F2", "\\uD9F3", "\\uD9F4", "\\uD9F5", "\\uD9F6", "\\uD9F7",
  "\\uD9F8", "\\uD9F9", "\\uD9FA", "\\uD9FB", "\\uD9FC", "\\uD9FD",
  "\\uD9FE", "\\uD9FF", "\\uDA00", "\\uDA01", "\\uDA02", "\\uDA03",
  "\\uDA04", "\\uDA05", "\\uDA06", "\\uDA07", "\\uDA08", "\\uDA09",
  "\\uDA0A", "\\uDA0B", "\\uDA0C", "\\uDA0D", "\\uDA0E", "\\uDA0F",
  "\\uDA10", "\\uDA11", "\\uDA12", "\\uDA13", "\\uDA14", "\\uDA15",
  "\\uDA16", "\\uDA17", "\\uDA18", "\\uDA19", "\\uDA1A", "\\uDA1B",
  "\\uDA1C", "\\uDA1D", "\\uDA1E", "\\uDA1F", "\\uDA20", "\\uDA21",
  "\\uDA22", "\\uDA23", "\\uDA24", "\\uDA25", "\\uDA26", "\\uDA27",
  "\\uDA28", "\\uDA29", "\\uDA2A", "\\uDA2B", "\\uDA2C", "\\uDA2D",
  "\\uDA2E", "\\uDA2F", "\\uDA30", "\\uDA31", "\\uDA32", "\\uDA33",
  "\\uDA34", "\\uDA35", "\\uDA36", "\\uDA37", "\\uDA38", "\\uDA39",
  "\\uDA3A", "\\uDA3B", "\\uDA3C", "\\uDA3D", "\\uDA3E", "\\uDA3F",
  "\\uDA40", "\\uDA41", "\\uDA42", "\\uDA43", "\\uDA44", "\\uDA45",
  "\\uDA46", "\\uDA47", "\\uDA48", "\\uDA49", "\\uDA4A", "\\uDA4B",
  "\\uDA4C", "\\uDA4D", "\\uDA4E", "\\uDA4F", "\\uDA50", "\\uDA51",
  "\\uDA52", "\\uDA53", "\\uDA54", "\\uDA55", "\\uDA56", "\\uDA57",
  "\\uDA58", "\\uDA59", "\\uDA5A", "\\uDA5B", "\\uDA5C", "\\uDA5D",
  "\\uDA5E", "\\uDA5F", "\\uDA60", "\\uDA61", "\\uDA62", "\\uDA63",
  "\\uDA64", "\\uDA65", "\\uDA66", "\\uDA67", "\\uDA68", "\\uDA69",
  "\\uDA6A", "\\uDA6B", "\\uDA6C", "\\uDA6D", "\\uDA6E", "\\uDA6F",
  "\\uDA70", "\\uDA71", "\\uDA72", "\\uDA73", "\\uDA74", "\\uDA75",
  "\\uDA76", "\\uDA77", "\\uDA78", "\\uDA79", "\\uDA7A", "\\uDA7B",
  "\\uDA7C", "\\uDA7D", "\\uDA7E", "\\uDA7F", "\\uDA80", "\\uDA81",
  "\\uDA82", "\\uDA83", "\\uDA84", "\\uDA85", "\\uDA86", "\\uDA87",
  "\\uDA88", "\\uDA89", "\\uDA8A", "\\uDA8B", "\\uDA8C", "\\uDA8D",
  "\\uDA8E", "\\uDA8F", "\\uDA90", "\\uDA91", "\\uDA92", "\\uDA93",
  "\\uDA94", "\\uDA95", "\\uDA96", "\\uDA97", "\\uDA98", "\\uDA99",
  "\\uDA9A", "\\uDA9B", "\\uDA9C", "\\uDA9D", "\\uDA9E", "\\uDA9F",
  "\\uDAA0", "\\uDAA1", "\\uDAA2", "\\uDAA3", "\\uDAA4", "\\uDAA5",
  "\\uDAA6", "\\uDAA7", "\\uDAA8", "\\uDAA9", "\\uDAAA", "\\uDAAB",
  "\\uDAAC", "\\uDAAD", "\\uDAAE", "\\uDAAF", "\\uDAB0", "\\uDAB1",
  "\\uDAB2", "\\uDAB3", "\\uDAB4", "\\uDAB5", "\\uDAB6", "\\uDAB7",
  "\\uDAB8", "\\uDAB9", "\\uDABA", "\\uDABB", "\\uDABC", "\\uDABD",
  "\\uDABE", "\\uDABF", "\\uDAC0", "\\uDAC1", "\\uDAC2", "\\uDAC3",
  "\\uDAC4", "\\uDAC5", "\\uDAC6", "\\uDAC7", "\\uDAC8", "\\uDAC9",
  "\\uDACA", "\\uDACB", "\\uDACC", "\\uDACD", "\\uDACE", "\\uDACF",
  "\\uDAD0", "\\uDAD1", "\\uDAD2", "\\uDAD3", "\\uDAD4", "\\uDAD5",
  "\\uDAD6", "\\uDAD7", "\\uDAD8", "\\uDAD9", "\\uDADA", "\\uDADB",
  "\\uDADC", "\\uDADD", "\\uDADE", "\\uDADF", "\\uDAE0", "\\uDAE1",
  "\\uDAE2", "\\uDAE3", "\\uDAE4", "\\uDAE5", "\\uDAE6", "\\uDAE7",
  "\\uDAE8", "\\uDAE9", "\\uDAEA", "\\uDAEB", "\\uDAEC", "\\uDAED",
  "\\uDAEE", "\\uDAEF", "\\uDAF0", "\\uDAF1", "\\uDAF2", "\\uDAF3",
  "\\uDAF4", "\\uDAF5", "\\uDAF6", "\\uDAF7", "\\uDAF8", "\\uDAF9",
  "\\uDAFA", "\\uDAFB", "\\uDAFC", "\\uDAFD", "\\uDAFE", "\\uDAFF",
  "\\uDB00", "\\uDB01", "\\uDB02", "\\uDB03", "\\uDB04", "\\uDB05",
  "\\uDB06", "\\uDB07", "\\uDB08", "\\uDB09", "\\uDB0A", "\\uDB0B",
  "\\uDB0C", "\\uDB0D", "\\uDB0E", "\\uDB0F", "\\uDB10", "\\uDB11",
  "\\uDB12", "\\uDB13", "\\uDB14", "\\uDB15", "\\uDB16", "\\uDB17",
  "\\uDB18", "\\uDB19", "\\uDB1A", "\\uDB1B", "\\uDB1C", "\\uDB1D",
  "\\uDB1E", "\\uDB1F", "\\uDB20", "\\uDB21", "\\uDB22", "\\uDB23",
  "\\uDB24", "\\uDB25", "\\uDB26", "\\uDB27", "\\uDB28", "\\uDB29",
  "\\uDB2A", "\\uDB2B", "\\uDB2C", "\\uDB2D", "\\uDB2E", "\\uDB2F",
  "\\uDB30", "\\uDB31", "\\uDB32", "\\uDB33", "\\uDB34", "\\uDB35",
  "\\uDB36", "\\uDB37", "\\uDB38", "\\uDB39", "\\uDB3A", "\\uDB3B",
  "\\uDB3C", "\\uDB3D", "\\uDB3E", "\\uDB3F", "\\uDB40", "\\uDB41",
  "\\uDB42", "\\uDB43", "\\uDB44", "\\uDB45", "\\uDB46", "\\uDB47",
  "\\uDB48", "\\uDB49", "\\uDB4A", "\\uDB4B", "\\uDB4C", "\\uDB4D",
  "\\uDB4E", "\\uDB4F", "\\uDB50", "\\uDB51", "\\uDB52", "\\uDB53",
  "\\uDB54", "\\uDB55", "\\uDB56", "\\uDB57", "\\uDB58", "\\uDB59",
  "\\uDB5A", "\\uDB5B", "\\uDB5C", "\\uDB5D", "\\uDB5E", "\\uDB5F",
  "\\uDB60", "\\uDB61", "\\uDB62", "\\uDB63", "\\uDB64", "\\uDB65",
  "\\uDB66", "\\uDB67", "\\uDB68", "\\uDB69", "\\uDB6A", "\\uDB6B",
  "\\uDB6C", "\\uDB6D", "\\uDB6E", "\\uDB6F", "\\uDB70", "\\uDB71",
  "\\uDB72", "\\uDB73", "\\uDB74", "\\uDB75", "\\uDB76", "\\uDB77",
  "\\uDB78", "\\uDB79", "\\uDB7A", "\\uDB7B", "\\uDB7C", "\\uDB7D",
  "\\uDB7E", "\\uDB7F", "\\uDB80", "\\uDB81", "\\uDB82", "\\uDB83",
  "\\uDB84", "\\uDB85", "\\uDB86", "\\uDB87", "\\uDB88", "\\uDB89",
  "\\uDB8A", "\\uDB8B", "\\uDB8C", "\\uDB8D", "\\uDB8E", "\\uDB8F",
  "\\uDB90", "\\uDB91", "\\uDB92", "\\uDB93", "\\uDB94", "\\uDB95",
  "\\uDB96", "\\uDB97", "\\uDB98", "\\uDB99", "\\uDB9A", "\\uDB9B",
  "\\uDB9C", "\\uDB9D", "\\uDB9E", "\\uDB9F", "\\uDBA0", "\\uDBA1",
  "\\uDBA2", "\\uDBA3", "\\uDBA4", "\\uDBA5", "\\uDBA6", "\\uDBA7",
  "\\uDBA8", "\\uDBA9", "\\uDBAA", "\\uDBAB", "\\uDBAC", "\\uDBAD",
  "\\uDBAE", "\\uDBAF", "\\uDBB0", "\\uDBB1", "\\uDBB2", "\\uDBB3",
  "\\uDBB4", "\\uDBB5", "\\uDBB6", "\\uDBB7", "\\uDBB8", "\\uDBB9",
  "\\uDBBA", "\\uDBBB", "\\uDBBC", "\\uDBBD", "\\uDBBE", "\\uDBBF",
  "\\uDBC0", "\\uDBC1", "\\uDBC2", "\\uDBC3", "\\uDBC4", "\\uDBC5",
  "\\uDBC6", "\\uDBC7", "\\uDBC8", "\\uDBC9", "\\uDBCA", "\\uDBCB",
  "\\uDBCC", "\\uDBCD", "\\uDBCE", "\\uDBCF", "\\uDBD0", "\\uDBD1",
  "\\uDBD2", "\\uDBD3", "\\uDBD4", "\\uDBD5", "\\uDBD6", "\\uDBD7",
  "\\uDBD8", "\\uDBD9", "\\uDBDA", "\\uDBDB", "\\uDBDC", "\\uDBDD",
  "\\uDBDE", "\\uDBDF", "\\uDBE0", "\\uDBE1", "\\uDBE2", "\\uDBE3",
  "\\uDBE4", "\\uDBE5", "\\uDBE6", "\\uDBE7", "\\uDBE8", "\\uDBE9",
  "\\uDBEA", "\\uDBEB", "\\uDBEC", "\\uDBED", "\\uDBEE", "\\uDBEF",
  "\\uDBF0", "\\uDBF1", "\\uDBF2", "\\uDBF3", "\\uDBF4", "\\uDBF5",
  "\\uDBF6", "\\uDBF7", "\\uDBF8", "\\uDBF9", "\\uDBFA", "\\uDBFB",
  "\\uDBFC", "\\uDBFD", "\\uDBFE", "\\uDBFF" >>

LowSurrogates == <<
  "\\uDC00", "\\uDC01", "\\uDC02", "\\uDC03", "\\uDC04", "\\uDC05",
  "\\uDC06", "\\uDC07", "\\uDC08", "\\uDC09", "\\uDC0A", "\\uDC0B",
  "\\uDC0C", "\\uDC0D", "\\uDC0E", "\\uDC0F", "\\uDC10", "\\uDC11",
  "\\uDC12", "\\uDC13", "\\uDC14", "\\uDC15", "\\uDC16", "\\uDC17",
  "\\uDC18", "\\uDC19", "\\uDC1A", "\\uDC1B", "\\uDC1C", "\\uDC1D",
  "\\uDC1E", "\\uDC1F", "\\uDC20", "\\uDC21", "\\uDC22", "\\uDC23",
  "\\uDC24", "\\uDC25", "\\uDC26", "\\uDC27", "\\uDC28", "\\uDC29",
  "\\uDC2A", "\\uDC2B", "\\uDC2C", "\\uDC2D", "\\uDC2E", "\\uDC2F",
  "\\uDC30", "\\uDC31", "\\uDC32", "\\uDC33", "\\uDC34", "\\uDC35",
  "\\uDC36", "\\uDC37", "\\uDC38", "\\uDC39", "\\uDC3A", "\\uDC3B",
  "\\uDC3C", "\\uDC3D", "\\uDC3E", "\\uDC3F", "\\uDC40", "\\uDC41",
  "\\uDC42", "\\uDC43", "\\uDC44", "\\uDC45", "\\uDC46", "\\uDC47",
  "\\uDC48", "\\uDC49", "\\uDC4A", "\\uDC4B", "\\uDC4C", "\\uDC4D",
  "\\uDC4E", "\\uDC4F", "\\uDC50", "\\uDC51", "\\uDC52", "\\uDC53",
  "\\uDC54", "\\uDC55", "\\uDC56", "\\uDC57", "\\uDC58", "\\uDC59",
  "\\uDC5A", "\\uDC5B", "\\uDC5C", "\\uDC5D", "\\uDC5E", "\\uDC5F",
  "\\uDC60", "\\uDC61", "\\uDC62", "\\uDC63", "\\uDC64", "\\uDC65",
  "\\uDC66", "\\uDC67", "\\uDC68", "\\uDC69", "\\uDC6A", "\\uDC6B",
  "\\uDC6C", "\\uDC6D", "\\uDC6E", "\\uDC6F", "\\uDC70", "\\uDC71",
  "\\uDC72", "\\uDC73", "\\uDC74", "\\uDC75", "\\uDC76", "\\uDC77",
  "\\uDC78", "\\uDC79", "\\uDC7A", "\\uDC7B", "\\uDC7C", "\\uDC7D",
  "\\uDC7E", "\\uDC7F", "\\uDC80", "\\uDC81", "\\uDC82", "\\uDC83",
  "\\uDC84", "\\uDC85", "\\uDC86", "\\uDC87", "\\uDC88", "\\uDC89",
  "\\uDC8A", "\\uDC8B", "\\uDC8C", "\\uDC8D", "\\uDC8E", "\\uDC8F",
  "\\uDC90", "\\uDC91", "\\uDC92", "\\uDC93", "\\uDC94", "\\uDC95",
  "\\uDC96", "\\uDC97", "\\uDC98", "\\uDC99", "\\uDC9A", "\\uDC9B",
  "\\uDC9C", "\\uDC9D", "\\uDC9E", "\\uDC9F", "\\uDCA0", "\\uDCA1",
  "\\uDCA2", "\\uDCA3", "\\uDCA4", "\\uDCA5", "\\uDCA6", "\\uDCA7",
  "\\uDCA8", "\\uDCA9", "\\uDCAA", "\\uDCAB", "\\uDCAC", "\\uDCAD",
  "\\uDCAE", "\\uDCAF", "\\uDCB0", "\\uDCB1", "\\uDCB2", "\\uDCB3",
  "\\uDCB4", "\\uDCB5", "\\uDCB6", "\\uDCB7", "\\uDCB8", "\\uDCB9",
  "\\uDCBA", "\\uDCBB", "\\uDCBC", "\\uDCBD", "\\uDCBE", "\\uDCBF",
  "\\uDCC0", "\\uDCC1", "\\uDCC2", "\\uDCC3", "\\uDCC4", "\\uDCC5",
  "\\uDCC6", "\\uDCC7", "\\uDCC8", "\\uDCC9", "\\uDCCA", "\\uDCCB",
  "\\uDCCC", "\\uDCCD", "\\uDCCE", "\\uDCCF", "\\uDCD0", "\\uDCD1",
  "\\uDCD2", "\\uDCD3", "\\uDCD4", "\\uDCD5", "\\uDCD6", "\\uDCD7",
  "\\uDCD8", "\\uDCD9", "\\uDCDA", "\\uDCDB", "\\uDCDC", "\\uDCDD",
  "\\uDCDE", "\\uDCDF", "\\uDCE0", "\\uDCE1", "\\uDCE2", "\\uDCE3",
  "\\uDCE4", "\\uDCE5", "\\uDCE6", "\\uDCE7", "\\uDCE8", "\\uDCE9",
  "\\uDCEA", "\\uDCEB", "\\uDCEC", "\\uDCED", "\\uDCEE", "\\uDCEF",
  "\\uDCF0", "\\uDCF1", "\\uDCF2", "\\uDCF3", "\\uDCF4", "\\uDCF5",
  "\\uDCF6", "\\uDCF7", "\\uDCF8", "\\uDCF9", "\\uDCFA", "\\uDCFB",
  "\\uDCFC", "\\uDCFD", "\\uDCFE", "\\uDCFF", "\\uDD00", "\\uDD01",
  "\\uDD02", "\\uDD03", "\\uDD04", "\\uDD05", "\\uDD06", "\\uDD07",
  "\\uDD08", "\\uDD09", "\\uDD0A", "\\uDD0B", "\\uDD0C", "\\uDD0D",
  "\\uDD0E", "\\uDD0F", "\\uDD10", "\\uDD11", "\\uDD12", "\\uDD13",
  "\\uDD14", "\\uDD15", "\\uDD16", "\\uDD17", "\\uDD18", "\\uDD19",
  "\\uDD1A", "\\uDD1B", "\\uDD1C", "\\uDD1D", "\\uDD1E", "\\uDD1F",
  "\\uDD20", "\\uDD21", "\\uDD22", "\\uDD23", "\\uDD24", "\\uDD25",
  "\\uDD26", "\\uDD27", "\\uDD28", "\\uDD29", "\\uDD2A", "\\uDD2B",
  "\\uDD2C", "\\uDD2D", "\\uDD2E", "\\uDD2F", "\\uDD30", "\\uDD31",
  "\\uDD32", "\\uDD33", "\\uDD34", "\\uDD35", "\\uDD36", "\\uDD37",
  "\\uDD38", "\\uDD39", "\\uDD3A", "\\uDD3B", "\\uDD3C", "\\uDD3D",
  "\\uDD3E", "\\uDD3F", "\\uDD40", "\\uDD41", "\\uDD42", "\\uDD43",
  "\\uDD44", "\\uDD45", "\\uDD46", "\\uDD47", "\\uDD48", "\\uDD49",
  "\\uDD4A", "\\uDD4B", "\\uDD4C", "\\uDD4D", "\\uDD4E", "\\uDD4F",
  "\\uDD50", "\\uDD51", "\\uDD52", "\\uDD53", "\\uDD54", "\\uDD55",
  "\\uDD56", "\\uDD57", "\\uDD58", "\\uDD59", "\\uDD5A", "\\uDD5B",
  "\\uDD5C", "\\uDD5D", "\\uDD5E", "\\uDD5F", "\\uDD60", "\\uDD61",
  "\\uDD62", "\\uDD63", "\\uDD64", "\\uDD65", "\\uDD66", "\\uDD67",
  "\\uDD68", "\\uDD69", "\\uDD6A", "\\uDD6B", "\\uDD6C", "\\uDD6D",
  "\\uDD6E", "\\uDD6F", "\\uDD70", "\\uDD71", "\\uDD72", "\\uDD73",
  "\\uDD74", "\\uDD75", "\\uDD76", "\\uDD77", "\\uDD78", "\\uDD79",
  "\\uDD7A", "\\uDD7B", "\\uDD7C", "\\uDD7D", "\\uDD7E", "\\uDD7F",
  "\\uDD80", "\\uDD81", "\\uDD82", "\\uDD83", "\\uDD84", "\\uDD85",
  "\\uDD86", "\\uDD87", "\\uDD88", "\\uDD89", "\\uDD8A", "\\uDD8B",
  "\\uDD8C", "\\uDD8D", "\\uDD8E", "\\uDD8F", "\\uDD90", "\\uDD91",
  "\\uDD92", "\\uDD93", "\\uDD94", "\\uDD95", "\\uDD96", "\\uDD97",
  "\\uDD98", "\\uDD99", "\\uDD9A", "\\uDD9B", "\\uDD9C", "\\uDD9D",
  "\\uDD9E", "\\uDD9F", "\\uDDA0", "\\uDDA1", "\\uDDA2", "\\uDDA3",
  "\\uDDA4", "\\uDDA5", "\\uDDA6", "\\uDDA7", "\\uDDA8", "\\uDDA9",
  "\\uDDAA", "\\uDDAB", "\\uDDAC", "\\uDDAD", "\\uDDAE", "\\uDDAF",
  "\\uDDB0", "\\uDDB1", "\\uDDB2", "\\uDDB3", "\\uDDB4", "\\uDDB5",
  "\\uDDB6", "\\uDDB7", "\\uDDB8", "\\uDDB9", "\\uDDBA", "\\uDDBB",
  "\\uDDBC", "\\uDDBD", "\\uDDBE", "\\uDDBF", "\\uDDC0", "\\uDDC1",
  "\\uDDC2", "\\uDDC3", "\\uDDC4", "\\uDDC5", "\\uDDC6", "\\uDDC7",
  "\\uDDC8", "\\uDDC9", "\\uDDCA", "\\uDDCB", "\\uDDCC", "\\uDDCD",
  "\\uDDCE", "\\uDDCF", "\\uDDD0", "\\uDDD1", "\\uDDD2", "\\uDDD3",
  "\\uDDD4", "\\uDDD5", "\\uDDD6", "\\uDDD7", "\\uDDD8", "\\uDDD9",
  "\\uDDDA", "\\uDDDB", "\\uDDDC", "\\uDDDD", "\\uDDDE", "\\uDDDF",
  "\\uDDE0", "\\uDDE1", "\\uDDE2", "\\uDDE3", "\\uDDE4", "\\uDDE5",
  "\\uDDE6", "\\uDDE7", "\\uDDE8", "\\uDDE9", "\\uDDEA", "\\uDDEB",
  "\\uDDEC", "\\uDDED", "\\uDDEE", "\\uDDEF", "\\uDDF0", "\\uDDF1",
  "\\uDDF2", "\\uDDF3", "\\uDDF4", "\\uDDF5", "\\uDDF6", "\\uDDF7",
  "\\uDDF8", "\\uDDF9", "\\uDDFA", "\\uDDFB", "\\uDDFC", "\\uDDFD",
  "\\uDDFE", "\\uDDFF", "\\uDE00", "\\uDE01", "\\uDE02", "\\uDE03",
  "\\uDE04", "\\uDE05", "\\uDE06", "\\uDE07", "\\uDE08", "\\uDE09",
  "\\uDE0A", "\\uDE0B", "\\uDE0C", "\\uDE0D", "\\uDE0E", "\\uDE0F",
  "\\uDE10", "\\uDE11", "\\uDE12", "\\uDE13", "\\uDE14", "\\uDE15",
  "\\uDE16", "\\uDE17", "\\uDE18", "\\uDE19", "\\uDE1A", "\\uDE1B",
  "\\uDE1C", "\\uDE1D", "\\uDE1E", "\\uDE1F", "\\uDE20", "\\uDE21",
  "\\uDE22", "\\uDE23", "\\uDE24", "\\uDE25", "\\uDE26", "\\uDE27",
  "\\uDE28", "\\uDE29", "\\uDE2A", "\\uDE2B", "\\uDE2C", "\\uDE2D",
  "\\uDE2E", "\\uDE2F", "\\uDE30", "\\uDE31", "\\uDE32", "\\uDE33",
  "\\uDE34", "\\uDE35", "\\uDE36", "\\uDE37", "\\uDE38", "\\uDE39",
  "\\uDE3A", "\\uDE3B", "\\uDE3C", "\\uDE3D", "\\uDE3E", "\\uDE3F",
  "\\uDE40", "\\uDE41", "\\uDE42", "\\uDE43", "\\uDE44", "\\uDE45",
  "\\uDE46", "\\uDE47", "\\uDE48", "\\uDE49", "\\uDE4A", "\\uDE4B",
  "\\uDE4C", "\\uDE4D", "\\uDE4E", "\\uDE4F", "\\uDE50", "\\uDE51",
  "\\uDE52", "\\uDE53", "\\uDE54", "\\uDE55", "\\uDE56", "\\uDE57",
  "\\uDE58", "\\uDE59", "\\uDE5A", "\\uDE5B", "\\uDE5C", "\\uDE5D",
  "\\uDE5E", "\\uDE5F", "\\uDE60", "\\uDE61", "\\uDE62", "\\uDE63",
  "\\uDE64", "\\uDE65", "\\uDE66", "\\uDE67", "\\uDE68", "\\uDE69",
  "\\uDE6A", "\\uDE6B", "\\uDE6C", "\\uDE6D", "\\uDE6E", "\\uDE6F",
  "\\uDE70", "\\uDE71", "\\uDE72", "\\uDE73", "\\uDE74", "\\uDE75",
  "\\uDE76", "\\uDE77", "\\uDE78", "\\uDE79", "\\uDE7A", "\\uDE7B",
  "\\uDE7C", "\\uDE7D", "\\uDE7E", "\\uDE7F", "\\uDE80", "\\uDE81",
  "\\uDE82", "\\uDE83", "\\uDE84", "\\uDE85", "\\uDE86", "\\uDE87",
  "\\uDE88", "\\uDE89", "\\uDE8A", "\\uDE8B", "\\uDE8C", "\\uDE8D",
  "\\uDE8E", "\\uDE8F", "\\uDE90", "\\uDE91", "\\uDE92", "\\uDE93",
  "\\uDE94", "\\uDE95", "\\uDE96", "\\uDE97", "\\uDE98", "\\uDE99",
  "\\uDE9A", "\\uDE9B", "\\uDE9C", "\\uDE9D", "\\uDE9E", "\\uDE9F",
  "\\uDEA0", "\\uDEA1", "\\uDEA2", "\\uDEA3", "\\uDEA4", "\\uDEA5",
  "\\uDEA6", "\\uDEA7", "\\uDEA8", "\\uDEA9", "\\uDEAA", "\\uDEAB",
  "\\uDEAC", "\\uDEAD", "\\uDEAE", "\\uDEAF", "\\uDEB0", "\\uDEB1",
  "\\uDEB2", "\\uDEB3", "\\uDEB4", "\\uDEB5", "\\uDEB6", "\\uDEB7",
  "\\uDEB8", "\\uDEB9", "\\uDEBA", "\\uDEBB", "\\uDEBC", "\\uDEBD",
  "\\uDEBE", "\\uDEBF", "\\uDEC0", "\\uDEC1", "\\uDEC2", "\\uDEC3",
  "\\uDEC4", "\\uDEC5", "\\uDEC6", "\\uDEC7", "\\uDEC8", "\\uDEC9",
  "\\uDECA", "\\uDECB", "\\uDECC", "\\uDECD", "\\uDECE", "\\uDECF",
  "\\uDED0", "\\uDED1", "\\uDED2", "\\uDED3", "\\uDED4", "\\uDED5",
  "\\uDED6", "\\uDED7", "\\uDED8", "\\uDED9", "\\uDEDA", "\\uDEDB",
  "\\uDEDC", "\\uDEDD", "\\uDEDE", "\\uDEDF", "\\uDEE0", "\\uDEE1",
  "\\uDEE2", "\\uDEE3", "\\uDEE4", "\\uDEE5", "\\uDEE6", "\\uDEE7",
  "\\uDEE8", "\\uDEE9", "\\uDEEA", "\\uDEEB", "\\uDEEC", "\\uDEED",
  "\\uDEEE", "\\uDEEF", "\\uDEF0", "\\uDEF1", "\\uDEF2", "\\uDEF3",
  "\\uDEF4", "\\uDEF5", "\\uDEF6", "\\uDEF7", "\\uDEF8", "\\uDEF9",
  "\\uDEFA", "\\uDEFB", "\\uDEFC", "\\uDEFD", "\\uDEFE", "\\uDEFF",
  "\\uDF00", "\\uDF01", "\\uDF02", "\\uDF03", "\\uDF04", "\\uDF05",
  "\\uDF06", "\\uDF07", "\\uDF08", "\\uDF09", "\\uDF0A", "\\uDF0B",
  "\\uDF0C", "\\uDF0D", "\\uDF0E", "\\uDF0F", "\\uDF10", "\\uDF11",
  "\\uDF12", "\\uDF13", "\\uDF14", "\\uDF15", "\\uDF16", "\\uDF17",
  "\\uDF18", "\\uDF19", "\\uDF1A", "\\uDF1B", "\\uDF1C", "\\uDF1D",
  "\\uDF1E", "\\uDF1F", "\\uDF20", "\\uDF21", "\\uDF22", "\\uDF23",
  "\\uDF24", "\\uDF25", "\\uDF26", "\\uDF27", "\\uDF28", "\\uDF29",
  "\\uDF2A", "\\uDF2B", "\\uDF2C", "\\uDF2D", "\\uDF2E", "\\uDF2F",
  "\\uDF30", "\\uDF31", "\\uDF32", "\\uDF33", "\\uDF34", "\\uDF35",
  "\\uDF36", "\\uDF37", "\\uDF38", "\\uDF39", "\\uDF3A", "\\uDF3B",
  "\\uDF3C", "\\uDF3D", "\\uDF3E", "\\uDF3F", "\\uDF40", "\\uDF41",
  "\\uDF42", "\\uDF43", "\\uDF44", "\\uDF45", "\\uDF46", "\\uDF47",
  "\\uDF48", "\\uDF49", "\\uDF4A", "\\uDF4B", "\\uDF4C", "\\uDF4D",
  "\\uDF4E", "\\uDF4F", "\\uDF50", "\\uDF51", "\\uDF52", "\\uDF53",
  "\\uDF54", "\\uDF55", "\\uDF56", "\\uDF57", "\\uDF58", "\\uDF59",
  "\\uDF5A", "\\uDF5B", "\\uDF5C", "\\uDF5D", "\\uDF5E", "\\uDF5F",
  "\\uDF60", "\\uDF61", "\\uDF62", "\\uDF63", "\\uDF64", "\\uDF65",
  "\\uDF66", "\\uDF67", "\\uDF68", "\\uDF69", "\\uDF6A", "\\uDF6B",
  "\\uDF6C", "\\uDF6D", "\\uDF6E", "\\uDF6F", "\\uDF70", "\\uDF71",
  "\\uDF72", "\\uDF73", "\\uDF74", "\\uDF75", "\\uDF76", "\\uDF77",
  "\\uDF78", "\\uDF79", "\\uDF7A", "\\uDF7B", "\\uDF7C", "\\uDF7D",
  "\\uDF7E", "\\uDF7F", "\\uDF80", "\\uDF81", "\\uDF82", "\\uDF83",
  "\\uDF84", "\\uDF85", "\\uDF86", "\\uDF87", "\\uDF88", "\\uDF89",
  "\\uDF8A", "\\uDF8B", "\\uDF8C", "\\uDF8D", "\\uDF8E", "\\uDF8F",
  "\\uDF90", "\\uDF91", "\\uDF92", "\\uDF93", "\\uDF94", "\\uDF95",
  "\\uDF96", "\\uDF97", "\\uDF98", "\\uDF99", "\\uDF9A", "\\uDF9B",
  "\\uDF9C", "\\uDF9D", "\\uDF9E", "\\uDF9F", "\\uDFA0", "\\uDFA1",
  "\\uDFA2", "\\uDFA3", "\\uDFA4", "\\uDFA5", "\\uDFA6", "\\uDFA7",
  "\\uDFA8", "\\uDFA9", "\\uDFAA", "\\uDFAB", "\\uDFAC", "\\uDFAD",
  "\\uDFAE", "\\uDFAF", "\\uDFB0", "\\uDFB1", "\\uDFB2", "\\uDFB3",
  "\\uDFB4", "\\uDFB5", "\\uDFB6", "\\uDFB7", "\\uDFB8", "\\uDFB9",
  "\\uDFBA", "\\uDFBB", "\\uDFBC", "\\uDFBD", "\\uDFBE", "\\uDFBF",
  "\\uDFC0", "\\uDFC1", "\\uDFC2", "\\uDFC3", "\\uDFC4", "\\uDFC5",
  "\\uDFC6", "\\uDFC7", "\\uDFC8", "\\uDFC9", "\\uDFCA", "\\uDFCB",
  "\\uDFCC", "\\uDFCD", "\\uDFCE", "\\uDFCF", "\\uDFD0", "\\uDFD1",
  "\\uDFD2", "\\uDFD3", "\\uDFD4", "\\uDFD5", "\\uDFD6", "\\uDFD7",
  "\\uDFD8", "\\uDFD9", "\\uDFDA", "\\uDFDB", "\\uDFDC", "\\uDFDD",
  "\\uDFDE", "\\uDFDF", "\\uDFE0", "\\uDFE1", "\\uDFE2", "\\uDFE3",
  "\\uDFE4", "\\uDFE5", "\\uDFE6", "\\uDFE7", "\\uDFE8", "\\uDFE9",
  "\\uDFEA", "\\uDFEB", "\\uDFEC", "\\uDFED", "\\uDFEE", "\\uDFEF",
  "\\uDFF0", "\\uDFF1", "\\uDFF2", "\\uDFF3", "\\uDFF4", "\\uDFF5",
  "\\uDFF6", "\\uDFF7", "\\uDFF8", "\\uDFF9", "\\uDFFA", "\\uDFFB",
  "\\uDFFC", "\\uDFFD", "\\uDFFE", "\\uDFFF" >>

\* <<first, last, upper of first>>: the lower-case code points first..last
\* and their upper-case forms, in the same order
AstralCasePairs == {
  <<66600, 66639, 66560>>, <<66776, 66811, 66736>>,
  <<66967, 66977, 66928>>, <<66979, 66993, 66940>>,
  <<66995, 67001, 66956>>, <<67003, 67004, 66964>>,
  <<68800, 68850, 68736>>, <<68976, 68997, 68944>>,
  <<71872, 71903, 71840>>, <<93792, 93823, 93760>>,
  <<93883, 93907, 93856>>, <<125218, 125251, 125184>> }

\* <<first, last>>: the cased code points above U+FFFF
AstralCased == {
  <<66560, 66639>>, <<66736, 66771>>, <<66776, 66811>>, <<66928, 66938>>,
  <<66940, 66954>>, <<66956, 66962>>, <<66964, 66965>>, <<66967, 66977>>,
  <<66979, 66993>>, <<66995, 67001>>, <<67003, 67004>>, <<67456, 67456>>,
  <<67459, 67461>>, <<67463, 67504>>, <<67506, 67514>>, <<68736, 68786>>,
  <<68800, 68850>>, <<68944, 68965>>, <<68976, 68997>>, <<71840, 71903>>,
  <<93760, 93823>>, <<93856, 93880>>, <<93883, 93907>>, <<119808, 119892>>,
  <<119894, 119964>>, <<119966, 119967>>, <<119970, 119970>>,
  <<119973, 119974>>, <<119977, 119980>>, <<119982, 119993>>,
  <<119995, 119995>>, <<119997, 120003>>, <<120005, 120069>>,
  <<120071, 120074>>, <<120077, 120084>>, <<120086, 120092>>,
  <<120094, 120121>>, <<120123, 120126>>, <<120128, 120132>>,
  <<120134, 120134>>, <<120138, 120144>>, <<120146, 120485>>,
  <<120488, 120512>>, <<120514, 120538>>, <<120540, 120570>>,
  <<120572, 120596>>, <<120598, 120628>>, <<120630, 120654>>,
  <<120656, 120686>>, <<120688, 120712>>, <<120714, 120744>>,
  <<120746, 120770>>, <<120772, 120779>>, <<122624, 122633>>,
  <<122635, 122654>>, <<122661, 122666>>, <<122928, 122989>>,
  <<125184, 125251>>, <<127280, 127305>>, <<127312, 127337>>,
  <<127344, 127369>> }

\* <<first, last>>: the case-ignorable code points above U+FFFF
AstralCaseIgnorable == {
  <<66045, 66045>>, <<66272, 66272>>, <<66422, 66426>>, <<67456, 67461>>,
  <<67463, 67504>>, <<67506, 67514>>, <<68097, 68099>>, <<68101, 68102>>,
  <<68108, 68111>>, <<68152, 68154>>, <<68159, 68159>>, <<68325, 68326>>,
  <<68900, 68903>>, <<68942, 68942>>, <<68969, 68973>>, <<68975, 68975>>,
  <<69291, 69292>>, <<69317, 69317>>, <<69370, 69375>>, <<69446, 69456>>,
  <<69506, 69509>>, <<69633, 69633>>, <<69688, 69702>>, <<69744, 69744>>,
  <<69747, 69748>>, <<69759, 69761>>, <<69811, 69814>>, <<69817, 69818>>,
  <<69821, 69821>>, <<69826, 69826>>, <<69837, 69837>>, <<69888, 69890>>,
  <<69927, 69931>>, <<69933, 69940>>, <<70003, 70003>>, <<70016, 70017>>,
  <<70070, 70078>>, <<70089, 70092>>, <<70095, 70095>>, <<70191, 70193>>,
  <<70196, 70196>>, <<70198, 70199>>, <<70206, 70206>>, <<70209, 70209>>,
  <<70367, 70367>>, <<70371, 70378>>, <<70400, 70401>>, <<70459, 70460>>,
  <<70464, 70464>>, <<70502, 70508>>, <<70512, 70516>>, <<70587, 70592>>,
  <<70606, 70606>>, <<70608, 70608>>, <<70610, 70610>>, <<70625, 70626>>,
  <<70712, 70719>>, <<70722, 70724>>, <<70726, 70726>>, <<70750, 70750>>,
  <<70835, 70840>>, <<70842, 70842>>, <<70847, 70848>>, <<70850, 70851>>,
  <<71090, 71093>>, <<71100, 71101>>, <<71103, 71104>>, <<71132, 71133>>,
  <<71219, 71226>>, <<71229, 71229>>, <<71231, 71232>>, <<71339, 71339>>,
  <<71341, 71341>>, <<71344, 71349>>, <<71351, 71351>>, <<71453, 71453>>,
  <<71455, 71455>>, <<71458, 71461>>, <<71463, 71467>>, <<71727, 71735>>,
  <<71737, 71738>>, <<71995, 71996>>, <<71998, 71998>>, <<72003, 72003>>,
  <<72148, 72151>>, <<72154, 72155>>, <<72160, 72160>>, <<72193, 72202>>,
  <<72243, 72248>>, <<72251, 72254>>, <<72263, 72263>>, <<72273, 72278>>,
  <<72281, 72283>>, <<72330, 72342>>, <<72344, 72345>>, <<72544, 72544>>,
  <<72546, 72548>>, <<72550, 72550>>, <<72752, 72758>>, <<72760, 72765>>,
  <<72767, 72767>>, <<72850, 72871>>, <<72874, 72880>>, <<72882, 72883>>,
  <<72885, 72886>>, <<73009, 73014>>, <<73018, 73018>>, <<73020, 73021>>,
  <<73023, 73029>>, <<73031, 73031>>, <<73104, 73105>>, <<73109, 73109>>,
  <<73111, 73111>>, <<73177, 73177>>, <<73459, 73460>>, <<73472, 73473>>,
  <<73526, 73530>>, <<73536, 73536>>, <<73538, 73538>>, <<73562, 73562>>,
  <<78896, 78912>>, <<78919, 78933>>, <<90398, 90409>>, <<90413, 90415>>,
  <<92912, 92916>>, <<92976, 92982>>, <<92992, 92995>>, <<93504, 93506>>,
  <<93547, 93548>>, <<94031, 94031>>, <<94095, 94111>>, <<94176, 94177>>,
  <<94179, 94180>>, <<94194, 94195>>, <<110576, 110579>>,
  <<110581, 110587>>, <<110589, 110590>>, <<113821, 113822>>,
  <<113824, 113827>>, <<118528, 118573>>, <<118576, 118598>>,
  <<119143, 119145>>, <<119155, 119170>>, <<119173, 119179>>,
  <<119210, 119213>>, <<119362, 119364>>, <<121344, 121398>>,
  <<121403, 121452>>, <<121461, 121461>>, <<121476, 121476>>,
  <<121499, 121503>>, <<121505, 121519>>, <<122880, 122886>>,
  <<122888, 122904>>, <<122907, 122913>>, <<122915, 122916>>,
  <<122918, 122922>>, <<122928, 122989>>, <<123023, 123023>>,
  <<123184, 123197>>, <<123566, 123566>>, <<123628, 123631>>,
  <<124139, 124143>>, <<124398, 124399>>, <<124643, 124643>>,
  <<124646, 124646>>, <<124654, 124655>>, <<124661, 124661>>,
  <<124671, 124671>>, <<125136, 125142>>, <<125252, 125259>>,
  <<127995, 127999>>, <<917505, 917505>>, <<917536, 917631>>,
  <<917760, 917999>> }

HighSurrogateSet == { HighSurrogates[i] : i \in 1..Len(HighSurrogates) }
LowSurrogateSet == { LowSurrogates[i] : i \in 1..Len(LowSurrogates) }

SurrogateIndex(units, c) == CHOOSE i \in 1..Len(units) : units[i] = c

\* a high surrogate at i with a low surrogate after it: one code point
PairAt(str, i) ==
  i < Len(str) /\ str[i] \in HighSurrogateSet /\ str[i + 1] \in LowSurrogateSet
\* the unit at i is the low surrogate of such a pair
PairEndsAt(str, i) == i > 1 /\ PairAt(str, i - 1)

\* the code point of the pair at i
CodePointAt(str, i) ==
  65536 + (SurrogateIndex(HighSurrogates, str[i]) - 1) * 1024
        + (SurrogateIndex(LowSurrogates, str[i + 1]) - 1)
\* the two code units of a code point above U+FFFF
UnitsOf(cp) ==
  <<HighSurrogates[((cp - 65536) \div 1024) + 1],
    LowSurrogates[((cp - 65536) % 1024) + 1]>>

InRanges(cp, ranges) == \E r \in ranges : r[1] <= cp /\ cp <= r[2]

IsLowerOfPair(r, cp) == r[1] <= cp /\ cp <= r[2]
IsUpperOfPair(r, cp) == r[3] <= cp /\ cp <= r[3] + (r[2] - r[1])
UpperInPair(r, cp) == r[3] + (cp - r[1])
LowerInPair(r, cp) == r[1] + (cp - r[3])

AstralUpperOf(cp) ==
  IF \E r \in AstralCasePairs : IsLowerOfPair(r, cp)
  THEN UpperInPair(CHOOSE r \in AstralCasePairs : IsLowerOfPair(r, cp), cp)
  ELSE cp
AstralLowerOf(cp) ==
  IF \E r \in AstralCasePairs : IsUpperOfPair(r, cp)
  THEN LowerInPair(CHOOSE r \in AstralCasePairs : IsUpperOfPair(r, cp), cp)
  ELSE cp

IsCased(c) ==
  IsLower(c) \/ IsUpper(c) \/ c \in UpperChanging \/ c \in LowerChanging
  \/ c \in OtherCased

\* the code point that holds the unit at k is case-ignorable; a surrogate on
\* its own is neither ignorable nor cased
IgnorableAt(str, k) ==
  IF PairAt(str, k) THEN InRanges(CodePointAt(str, k), AstralCaseIgnorable)
  ELSE IF PairEndsAt(str, k)
  THEN InRanges(CodePointAt(str, k - 1), AstralCaseIgnorable)
  ELSE str[k] \in CaseIgnorable
\* the code point that holds the unit at j is cased
CasedAt(str, j) ==
  IF PairAt(str, j) THEN InRanges(CodePointAt(str, j), AstralCased)
  ELSE IF PairEndsAt(str, j) THEN InRanges(CodePointAt(str, j - 1), AstralCased)
  ELSE IsCased(str[j])

\* a cased letter, then ignorable characters only, up to (from) position i
CasedBefore(str, i) ==
  \E j \in 1..(i - 1) :
    /\ ~IgnorableAt(str, j) /\ CasedAt(str, j)
    /\ \A k \in (j + 1)..(i - 1) : IgnorableAt(str, k)
CasedAfter(str, i) ==
  \E j \in (i + 1)..Len(str) :
    /\ ~IgnorableAt(str, j) /\ CasedAt(str, j)
    /\ \A k \in (i + 1)..(j - 1) : IgnorableAt(str, k)

\* the capital sigma at i ends a word
IsFinalSigma(str, i) == CasedBefore(str, i) /\ ~CasedAfter(str, i)

\* the upper case of one code unit that is no part of a pair
UpperOf(c) ==
  IF IsLower(c)
  THEN <<UpperLetters[CHOOSE i \in 1..Len(LowerLetters) : LowerLetters[i] = c]>>
  ELSE IF c \in UpperChanging
  THEN UpperTo[CHOOSE i \in 1..Len(UpperFrom) : UpperFrom[i] = c]
  ELSE <<c>>

\* the lower case of the code unit at i that is no part of a pair
LowerOf(str, i) ==
  IF IsUpper(str[i])
  THEN <<LowerLetters[CHOOSE k \in 1..Len(UpperLetters) : UpperLetters[k] = str[i]]>>
  ELSE IF str[i] = "Σ"
  THEN (IF IsFinalSigma(str, i) THEN <<"ς">> ELSE <<"σ">>)
  ELSE IF str[i] \in LowerChanging
  THEN LowerTo[CHOOSE k \in 1..Len(LowerFrom) : LowerFrom[k] = str[i]]
  ELSE <<str[i]>>

\* what the unit at i contributes to the result: a pair is mapped as one code
\* point at its first unit and contributes nothing at its second
UpperAt(str, i) ==
  IF PairAt(str, i) THEN UnitsOf(AstralUpperOf(CodePointAt(str, i)))
  ELSE IF PairEndsAt(str, i) THEN <<>>
  ELSE UpperOf(str[i])
LowerAt(str, i) ==
  IF PairAt(str, i) THEN UnitsOf(AstralLowerOf(CodePointAt(str, i)))
  ELSE IF PairEndsAt(str, i) THEN <<>>
  ELSE LowerOf(str, i)

\* String.prototype.toUpperCase and toLowerCase
toUpperCase(str) == Concat([i \in 1..Len(str) |-> UpperAt(str, i)])
toLowerCase(str) == Concat([i \in 1..Len(str) |-> LowerAt(str, i)])

\* the white space and the line terminators of ECMAScript: what \s matches
\* and what trim removes
JsWhiteSpace == {
  "\t", "\n", "\\u000B", "\f", "\r", " ", " ", " ", "\\u2000", "\\u2001",
  "\\u2002", "\\u2003", "\\u2004", "\\u2005", "\\u2006", "\\u2007",
  "\\u2008", "\\u2009", "\\u200A", "\\u2028", "\\u2029", "\\u202F",
  "\\u205F", "\\u3000", "﻿" }

\* decimal rendering of a natural number, as template literals produce it
RECURSIVE NumToStr(_)
NumToStr(n) ==
  LET d == <<"0","1","2","3","4","5","6","7","8","9">>[(n % 10) + 1]
  IN IF n < 10 THEN <<d>> ELSE NumToStr(n \div 10) \o <<d>>

startsWith(s, c) == Len(s) > 0 /\ s[1] = c

----------------------------------------------------------------------------
(* lib/infer/naming.ts *)

\* .replace(/([a-z])([A-Z])/g, "$1_$2"): an underscore between every
\* lower-case letter and the upper-case letter that follows it
RECURSIVE CamelToUnderscore(_)
CamelToUnderscore(s) ==
  IF Len(s) < 2 THEN s
  ELSE IF IsLower(s[1]) /\ IsUpper(s[2])
       THEN <<s[1], "_", s[2]>> \o CamelToUnderscore(SubSeq(s, 3, Len(s)))
       ELSE <<s[1]>> \o CamelToUnderscore(Tail(s))

\* [_\-\s]
IsWordSeparator(c) == c \in {"_", "-"} \/ c \in JsWhiteSpace

\* .split(/[_\-\s]+/).filter(Boolean): the maximal runs of non-separators
RECURSIVE SplitWords(_, _)
SplitWords(s, cur) ==
  IF s = <<>> THEN (IF cur = <<>> THEN <<>> ELSE <<cur>>)
  ELSE IF IsWordSeparator(Head(s))
       THEN (IF cur = <<>> THEN <<>> ELSE <<cur>>) \o SplitWords(Tail(s), <<>>)
       ELSE SplitWords(Tail(s), Append(cur, Head(s)))

\* word.charAt(0).toUpperCase() + word.slice(1).toLowerCase()
Capitalize(word) == toUpperCase(<<word[1]>>) \o toLowerCase(Tail(word))

\* .map(word => ...).join("")
CapitalizeAll(words) == Concat([i \in 1..Len(words) |-> Capitalize(words[i])])

toPascalCase(str) == CapitalizeAll(SplitWords(CamelToUnderscore(str), <<>>))

RootName == <<"R","o","o","t">>

\* new NameGenerator(): usedNames = new Map()
EmptyNames == [n \in {} |-> 0]

GetCount(used, name) == IF name \in DOMAIN used THEN used[name] ELSE 0

SetCount(used, name, n) ==
  [k \in (DOMAIN used) \cup {name} |-> IF k = name THEN n ELSE used[k]]

\* base || "Root"
BaseOrRoot(base) == IF base = <<>> THEN RootName ELSE base

CandidateName(pathSegments) ==
  BaseOrRoot(Concat([i \in 1..Len(pathSegments) |-> toPascalCase(pathSegments[i])]))

\* a slip: the count before the increment is appended
SuffixedWithCount(candidateName, count) == candidateName \o NumToStr(count)

\* the suffix the allocator appends on the (count+1)-th use of a base name
SuffixedName(candidateName, count) == candidateName \o NumToStr(count + 1)

\* the count === 0 test and the two returns of generate
NameForCount(candidateName, count) ==
  IF count = 0 THEN candidateName ELSE SuffixedName(candidateName, count)

GenerateCandidate(used, candidateName) ==
  [name |-> NameForCount(candidateName, GetCount(used, candidateName)),
   used |-> SetCount(used, candidateName, GetCount(used, candidateName) + 1)]

\* NameGenerator.generate: the returned name and the updated usedNames
generate(used, pathSegments) == GenerateCandidate(used, CandidateName(pathSegments))

----------------------------------------------------------------------------
(* lib/infer/types.ts: the IR *)

Primitive(t) == [kind |-> "primitive", type |-> t]
Unknown      == [kind |-> "unknown"]
DateString   == [kind |-> "date-string"]
ArrayOf(e)   == [kind |-> "array", elementType |-> e]
UnionOf(vs)  == [kind |-> "union", variants |-> vs]
ObjectOf(props, name) == [kind |-> "object", properties |-> props, typeName |-> name]
PropertyInfo(k, ty, opt, nul) ==
  [key |-> k, type |-> ty, optional |-> opt, nullable |-> nul]

NullType == Primitive("null")
IsNullType(v) == v.kind = "primitive" /\ v.type = "null"

(* Values that are no InferredType and still turn up where one is expected.  *)
(* The type field of a Primitive is a string, whose kind is undefined; the   *)
(* value undefined has no field at all, and reading one throws a TypeError.  *)
(* An evaluation that threw has the value TypeErrorThrown, which every       *)
(* construct that would have used its result passes on.                      *)
StringAsType(str) == [kind |-> "undefined", string |-> str]
JsUndefined       == [js |-> "undefined"]
TypeErrorThrown   == [kind |-> "throws", error |-> "TypeError"]
\* the same where a string was to be returned: no string of the program, whose
\* strings are sequences of single code units
ThrownString      == <<"TypeError">>

\* Object.keys(properties), as a sequence and as a set
Keys(props)   == [i \in 1..Len(props) |-> props[i].key]
KeySet(props) == {props[i].key : i \in 1..Len(props)}
HasKey(props, k) == k \in KeySet(props)
\* properties[key], for an own key
Prop(props, k) == props[CHOOSE i \in 1..Len(props) : props[i].key = k]

(* A plain object of JavaScript: its own enumerable properties in the order *)
(* Object.keys lists them, which is the array indices in ascending order    *)
(* and then the other keys in the order of their creation.                  *)
MaxArrayIndex == Chars("4294967294")

DigitValue(c) ==
  CHOOSE n \in 0..9 : <<"0","1","2","3","4","5","6","7","8","9">>[n + 1] = c

\* of two canonical decimals, the first is the smaller number
IndexLess(a, b) ==
  \/ Len(a) < Len(b)
  \/ /\ Len(a) = Len(b)
     /\ \E i \in 1..Len(a) :
          /\ DigitValue(a[i]) < DigitValue(b[i])
          /\ \A j \in 1..(i - 1) : a[j] = b[j]

\* the canonical decimal of an integer from 0 to 2^32 - 2
IsArrayIndex(key) ==
  /\ Len(key) >= 1
  /\ \A i \in 1..Len(key) : IsDigit(key[i])
  /\ Len(key) = 1 \/ key[1] # "0"
  /\ ~IndexLess(MaxArrayIndex, key)

\* e.key comes before the key of the entry at j in the order of Object.keys
ComesBefore(e, entries, j) ==
  ~IsArrayIndex(entries[j].key) \/ IndexLess(e.key, entries[j].key)

InsertAt(entries, j, e) ==
  SubSeq(entries, 1, j - 1) \o <<e>> \o SubSeq(entries, j, Len(entries))

\* the creation or the update of the own property e.key
PutOwn(entries, e) ==
  IF \E j \in 1..Len(entries) : entries[j].key = e.key
  THEN [j \in 1..Len(entries) |-> IF entries[j].key = e.key THEN e ELSE entries[j]]
  ELSE IF IsArrayIndex(e.key) /\ \E j \in 1..Len(entries) : ComesBefore(e, entries, j)
  THEN InsertAt(entries, CHOOSE j \in 1..Len(entries) :
                           /\ ComesBefore(e, entries, j)
                           /\ \A k \in 1..(j - 1) : ~ComesBefore(e, entries, k), e)
  ELSE Append(entries, e)

(* A PropertyMap under construction: its own entries and its prototype,     *)
(* Object.prototype until an assignment to the key __proto__ replaces it    *)
(* with the assigned PropertyInfo.  An Object type whose properties have a  *)
(* replaced prototype carries it in the field proto.                        *)
ProtoKey == Chars("__proto__")
ObjectPrototype == [key |-> Chars("Object.prototype")]
EmptyMap == [own |-> <<>>, proto |-> ObjectPrototype]

HasAssignedProto(obj) == "proto" \in DOMAIN obj

ObjectOfMap(map, name) ==
  IF map.proto = ObjectPrototype THEN ObjectOf(map.own, name)
  ELSE [kind |-> "object", properties |-> map.own, typeName |-> name,
        proto |-> map.proto]

\* properties[key] = info
SetProp(map, info) ==
  IF info.key = ProtoKey THEN [map EXCEPT !.proto = info]
  ELSE [map EXCEPT !.own = PutOwn(@, info)]

\* the function-valued members of Object.prototype
ObjectPrototypeMembers ==
  { Chars("constructor"), Chars("hasOwnProperty"), Chars("isPrototypeOf"),
    Chars("propertyIsEnumerable"), Chars("toLocaleString"), Chars("toString"),
    Chars("valueOf"), Chars("__defineGetter__"), Chars("__defineSetter__"),
    Chars("__lookupGetter__"), Chars("__lookupSetter__") }

\* what the code reads of prop = obj.properties[key]: whether prop is truthy,
\* prop.type, and whether prop.nullable is truthy
Read(held, type, nullable) == [held |-> held, type |-> type, nullable |-> nullable]

\* t.type, t being an InferredType
TypeFieldOf(t) ==
  IF t.kind = "primitive" THEN StringAsType(Chars(t.type)) ELSE JsUndefined

\* a key found on the assigned prototype, which is a PropertyInfo
ReadAssigned(info, key) ==
  IF key = Chars("type") THEN Read(TRUE, TypeFieldOf(info.type), FALSE)
  ELSE IF key = Chars("optional") THEN Read(info.optional, JsUndefined, FALSE)
  ELSE Read(info.nullable, JsUndefined, FALSE)

\* a key looked up on Object.prototype; __proto__ is the accessor that
\* returns the prototype of the object the lookup started at
ReadInherited(obj, key) ==
  IF key = ProtoKey
  THEN (IF HasAssignedProto(obj)
        THEN Read(TRUE, obj.proto.type, obj.proto.nullable)
        ELSE Read(TRUE, JsUndefined, FALSE))
  ELSE Read(key \in ObjectPrototypeMembers, JsUndefined, FALSE)

\* obj.properties[key]: the own property, or what the prototype chain gives
ReadProperty(obj, key) ==
  IF HasKey(obj.properties, key)
  THEN Read(TRUE, Prop(obj.properties, key).type, Prop(obj.properties, key).nullable)
  ELSE IF HasAssignedProto(obj)
          /\ key \in {Chars("type"), Chars("optional"), Chars("nullable")}
  THEN ReadAssigned(obj.proto, key)
  ELSE ReadInherited(obj, key)

\* Array.prototype.filter
RECURSIVE Filter(_, _)
Filter(Keep(_), s) ==
  IF s = <<>> THEN <<>>
  ELSE (IF Keep(Head(s)) THEN <<Head(s)>> ELSE <<>>) \o Filter(Keep, Tail(s))

----------------------------------------------------------------------------
(* lib/infer/merge.ts *)

\* a slip: the optional and nullable flags take part in the comparison
PropertyMatchesWithFlags(pa, pb, sameType) ==
  sameType /\ pa.optional = pb.optional /\ pa.nullable = pb.nullable

\* the test applied to the properties under one key: only their types count
PropertyMatches(pa, pb, sameType) == sameType

\* typesEqual: the two sorted key lists of two objects agree position by
\* position exactly when the key sets are equal, keys being unique in a map
RECURSIVE typesEqual(_, _)
typesEqual(a, b) ==
  IF a.kind # b.kind THEN FALSE
  ELSE CASE a.kind = "primitive" -> a.type = b.type
         [] a.kind \in {"unknown", "date-string"} -> TRUE
         [] a.kind = "array" -> typesEqual(a.elementType, b.elementType)
         [] a.kind = "union" ->
              /\ Len(a.variants) = Len(b.variants)
              /\ \A i \in 1..Len(a.variants) : typesEqual(a.variants[i], b.variants[i])
         [] a.kind = "object" ->
              /\ Len(a.properties) = Len(b.properties)
              /\ KeySet(a.properties) = KeySet(b.properties)
              /\ \A k \in KeySet(a.properties) :
                   PropertyMatches(Prop(a.properties, k), Prop(b.properties, k),
                     typesEqual(Prop(a.properties, k).type, Prop(b.properties, k).type))
         [] OTHER -> FALSE

RECURSIVE flattenUnions(_)
flattenUnions(types) ==
  IF types = <<>> THEN <<>>
  ELSE LET t == Head(types)
       IN (IF t.kind = "union" THEN flattenUnions(t.variants) ELSE <<t>>)
          \o flattenUnions(Tail(types))

RECURSIVE DedupInto(_, _)
DedupInto(res, types) ==
  IF types = <<>> THEN res
  ELSE LET t == Head(types)
       IN IF \E i \in 1..Len(res) : typesEqual(res[i], t)
          THEN DedupInto(res, Tail(types))
          ELSE DedupInto(Append(res, t), Tail(types))

\* a slip: duplicates recognised by kind alone
RECURSIVE DedupByKindInto(_, _)
DedupByKindInto(res, types) ==
  IF types = <<>> THEN res
  ELSE IF \E i \in 1..Len(res) : res[i].kind = Head(types).kind
       THEN DedupByKindInto(res, Tail(types))
       ELSE DedupByKindInto(Append(res, Head(types)), Tail(types))

deduplicateByKind(types) == DedupByKindInto(<<>>, types)

\* a slip: no deduplication at all
NoDeduplication(types) == types

deduplicateTypes(types) == DedupInto(<<>>, types)

IsMeaningful(t) == t.kind # "unknown"

\* meaningful.length > 0 ? meaningful : deduped
FinalTypes(deduped, meaningful) == IF Len(meaningful) > 0 THEN meaningful ELSE deduped

MeaningfulOrAll(deduped) == FinalTypes(deduped, Filter(IsMeaningful, deduped))

\* a slip: a single remaining type is wrapped too
AlwaysUnion(finalTypes) == UnionOf(finalTypes)

\* a single remaining type is returned unwrapped
SingleOrUnion(finalTypes) ==
  IF Len(finalTypes) = 1 THEN finalTypes[1] ELSE UnionOf(finalTypes)

\* flattenUnions reads t.kind of every element, which throws on undefined
ReadsUndefined(types) == \E i \in 1..Len(types) : types[i] = JsUndefined

mergeTypes(types) ==
  IF Len(types) = 0 THEN Unknown
  ELSE IF ReadsUndefined(types) THEN TypeErrorThrown
  ELSE SingleOrUnion(MeaningfulOrAll(deduplicateTypes(flattenUnions(types))))

\* the Set allKeys: every key of every object, in first-insertion order
RECURSIVE AddKeys(_, _)
AddKeys(acc, ks) ==
  IF ks = <<>> THEN acc
  ELSE AddKeys(IF \E i \in 1..Len(acc) : acc[i] = Head(ks) THEN acc
               ELSE Append(acc, Head(ks)), Tail(ks))

RECURSIVE AllKeys(_, _)
AllKeys(acc, objects) ==
  IF objects = <<>> THEN acc
  ELSE AllKeys(AddKeys(acc, Keys(Head(objects).properties)), Tail(objects))

\* a slip: <= for <
IsOptionalAtMost(presentCount, totalObjects) == presentCount <= totalObjects

\* presentCount < totalObjects
IsOptional(presentCount, totalObjects) == presentCount < totalObjects

NotNullType(v) == ~IsNullType(v)

HasNullVariant(variants) == \E i \in 1..Len(variants) : IsNullType(variants[i])

\* the collapse of a union's non-null remainder
CollapseNonNull(nonNullVariants) ==
  IF Len(nonNullVariants) = 1 THEN nonNullVariants[1]
  ELSE IF Len(nonNullVariants) = 0 THEN NullType
  ELSE UnionOf(nonNullVariants)

\* a slip: the null variant is stripped but finalNullable is not set
PropertyNullableNotForced(key, isOptional, isNullable, mergedType) ==
  IF mergedType.kind = "union" /\ HasNullVariant(mergedType.variants)
  THEN PropertyInfo(key, CollapseNonNull(Filter(NotNullType, mergedType.variants)),
                    isOptional, isNullable)
  ELSE PropertyInfo(key, mergedType, isOptional, isNullable)

\* finalType and finalNullable, and the PropertyInfo stored under the key
PropertyFromMerged(key, isOptional, isNullable, mergedType) ==
  IF mergedType.kind = "union" /\ HasNullVariant(mergedType.variants)
  THEN PropertyInfo(key, CollapseNonNull(Filter(NotNullType, mergedType.variants)),
                    isOptional, TRUE)
  ELSE PropertyInfo(key, mergedType, isOptional, isNullable)

\* a slip: if (prop && !prop.nullable)
HoldersNotNullable(objects, key) ==
  Filter(LAMBDA o : ReadProperty(o, key).held /\ ~ReadProperty(o, key).nullable,
         objects)

\* the objects whose properties[key] is truthy: presentCount is their number
Holders(objects, key) == Filter(LAMBDA o : ReadProperty(o, key).held, objects)

TypesForKey(holders, key) ==
  [i \in 1..Len(holders) |-> ReadProperty(holders[i], key).type]

NullableCount(holders, key) ==
  Len(Filter(LAMBDA o : ReadProperty(o, key).nullable, holders))

\* the rest of the iteration once mergeTypes(typesForKey) has returned or
\* thrown
PropertyUnlessThrown(key, isOptional, isNullable, mergedType) ==
  IF mergedType = TypeErrorThrown THEN TypeErrorThrown
  ELSE PropertyFromMerged(key, isOptional, isNullable, mergedType)

PropertyFromHolders(key, totalObjects, holders) ==
  PropertyUnlessThrown(key,
                       IsOptional(Len(holders), totalObjects),
                       NullableCount(holders, key) > 0,
                       mergeTypes(TypesForKey(holders, key)))

\* one iteration of the loop over allKeys
MergedProperty(objects, key) ==
  PropertyFromHolders(key, Len(objects), Holders(objects, key))

\* the objects.length === 1 branch: { ...objects[0], typeName }
SingleObject(obj, typeName) == [obj EXCEPT !.typeName = typeName]

\* the loop over allKeys: mergedProperties[key] = { ... } for each key
RECURSIVE MergeEachKey(_, _, _, _)
MergeEachKey(map, objects, allKeys, i) ==
  IF i > Len(allKeys) THEN map
  ELSE MergeEachKey(SetProp(map, MergedProperty(objects, allKeys[i])),
                    objects, allKeys, i + 1)

\* mergeTypes threw for some key
MergeThrew(objects, allKeys) ==
  \E i \in 1..Len(allKeys) :
    MergedProperty(objects, allKeys[i]) = TypeErrorThrown

MergeOverKeys(objects, typeName, allKeys) ==
  IF MergeThrew(objects, allKeys) THEN TypeErrorThrown
  ELSE ObjectOfMap(MergeEachKey(EmptyMap, objects, allKeys, 1), typeName)

mergeObjectTypes(objects, typeName) ==
  IF Len(objects) = 0 THEN ObjectOf(<<>>, typeName)
  ELSE IF Len(objects) = 1 THEN SingleObject(objects[1], typeName)
  ELSE MergeOverKeys(objects, typeName, AllKeys(<<>>, objects))

----------------------------------------------------------------------------
(* JSON values, as JSON.parse returns them *)

JNull       == [t |-> "null"]
JNumber     == [t |-> "number"]
JBoolean    == [t |-> "boolean"]
JString(cs) == [t |-> "string", s |-> cs]
JArray(xs)  == [t |-> "array", items |-> xs]
JObject(es) == [t |-> "object", entries |-> es]
Entry(k, v) == [key |-> k, val |-> v]
\* a value JSON.parse never returns, which inferType still accepts (unknown)
JUndefined  == [t |-> "undefined"]

----------------------------------------------------------------------------
(* lib/infer/infer.ts *)

DigitsAt(s, i, n) == i + n - 1 <= Len(s) /\ \A j \in i..(i + n - 1) : IsDigit(s[j])

RECURSIVE DigitRunEnd(_, _)
DigitRunEnd(s, i) ==
  IF i <= Len(s) /\ IsDigit(s[i]) THEN DigitRunEnd(s, i + 1) ELSE i

\* (\.\d+)? starting at j: the index after it
FractionEnd(s, j) ==
  IF j + 1 <= Len(s) /\ s[j] = "." /\ IsDigit(s[j + 1])
  THEN DigitRunEnd(s, j + 1) ELSE j

\* (:\d{2}(\.\d+)?)? starting at i: the index after it
SecondsEnd(s, i) ==
  IF i <= Len(s) /\ s[i] = ":" /\ DigitsAt(s, i + 1, 2)
  THEN FractionEnd(s, i + 3) ELSE i

\* (Z|[+-]\d{2}:?\d{2})?$ starting at k
ZoneToEnd(s, k) ==
  \/ k = Len(s) + 1
  \/ k = Len(s) /\ s[k] = "Z"
  \/ /\ k <= Len(s)
     /\ s[k] \in {"+", "-"}
     /\ DigitsAt(s, k + 1, 2)
     /\ \/ Len(s) = k + 4 /\ DigitsAt(s, k + 3, 2)
        \/ Len(s) = k + 5 /\ s[k + 3] = ":" /\ DigitsAt(s, k + 4, 2)

\* ISO_DATE_REGEX.test(val)
IsoDateTest(s) ==
  /\ Len(s) >= 10
  /\ DigitsAt(s, 1, 4) /\ s[5] = "-" /\ DigitsAt(s, 6, 2) /\ s[8] = "-"
  /\ DigitsAt(s, 9, 2)
  /\ \/ Len(s) = 10
     \/ /\ s[11] = "T"
        /\ DigitsAt(s, 12, 2) /\ Len(s) >= 16 /\ s[14] = ":" /\ DigitsAt(s, 15, 2)
        /\ ZoneToEnd(s, SecondsEnd(s, 17))

Diagnostic(level, text, at, path) ==
  [level |-> level, message |-> [text |-> text, at |-> at], path |-> path]

Root4 == <<"r","o","o","t">>

\* path.join(".") and path.join(".") || "root"
PathStr(path)    == Join(path, <<".">>)
PathOrRoot(path) == IF PathStr(path) = <<>> THEN Root4 ELSE PathStr(path)

IndexSegment(i) == <<"[">> \o NumToStr(i) \o <<"]">>
NotIndexSegment(p) == ~startsWith(p, "[")
ItemSegment == <<"i","t","e","m">>

\* the closure state of one inferType invocation
Ctx(diags, used, fc) == [diagnostics |-> diags, used |-> used, fieldCount |-> fc]
Push(ctx, d) == [ctx EXCEPT !.diagnostics = Append(@, d)]
Out(ty, ctx) == [type |-> ty, ctx |-> ctx]

\* nameGen.generate(segments) inside a run: the name and the updated closure
Allocated(ctx, g) == [name |-> g.name, ctx |-> [ctx EXCEPT !.used = g.used]]
Allocate(ctx, segments) == Allocated(ctx, generate(ctx.used, segments))

\* the name inferObject asks the allocator for
ObjectNameSegments(path, st) ==
  IF Len(path) = 0 THEN <<st.rootTypeName>> ELSE Filter(NotIndexSegment, path)

ItemNameSegments(path) == Append(Filter(NotIndexSegment, path), ItemSegment)

\* a slip: the warning is filed under the root whatever the array's place
EmptyArrayWarningAtRoot(path) == Diagnostic("warning", "Empty array", Root4, <<>>)

EmptyArrayWarning(path) ==
  Diagnostic("warning", "Empty array", PathOrRoot(path), PathStr(path))
MixedTypesWarning(path) ==
  Diagnostic("warning", "Mixed element types in array", PathOrRoot(path), PathStr(path))
MixedObjectsWarning(path) ==
  Diagnostic("warning", "Mixed element types (objects and primitives) in array",
             PathOrRoot(path), PathStr(path))
DateInfo(path) ==
  Diagnostic("info", "Detected ISO date string", PathStr(path), PathStr(path))

\* a slip: null is stored as the type of the property
PropertyKeepingNull(key, childType) == PropertyInfo(key, childType, FALSE, FALSE)

\* "Separate null from the type": the PropertyInfo inferObject stores
PropertyOf(key, childType) ==
  IF IsNullType(childType)
  THEN PropertyInfo(key, Unknown, FALSE, TRUE)
  ELSE PropertyInfo(key, childType, FALSE, FALSE)

RECURSIVE infer(_, _, _, _)
RECURSIVE InferElements(_, _, _, _, _, _, _)
RECURSIVE InferEntries(_, _, _, _, _, _)

\* the body of inferArray's for loop, r being the element's inferred type
ElementStep(arr, i, path, st, objs, others, r) ==
  IF r.type = TypeErrorThrown
  THEN [objs |-> objs, others |-> others, ctx |-> r.ctx, threw |-> TRUE]
  ELSE IF r.type.kind = "object"
  THEN InferElements(arr, i + 1, path, st, r.ctx, Append(objs, r.type), others)
  ELSE InferElements(arr, i + 1, path, st, r.ctx, objs, Append(others, r.type))

\* the for loop of inferArray: objectElements, otherElements and the closure
InferElements(arr, i, path, st, ctx, objs, others) ==
  IF i > Len(arr)
  THEN [objs |-> objs, others |-> others, ctx |-> ctx, threw |-> FALSE]
  ELSE ElementStep(arr, i, path, st, objs, others,
                   infer(arr[i], Append(path, IndexSegment(i - 1)), st, ctx))

\* { kind: "array", elementType }, unless the element type's evaluation threw
ArrayOfElement(elementType) ==
  IF elementType = TypeErrorThrown THEN TypeErrorThrown ELSE ArrayOf(elementType)

\* all elements are objects
AllObjects(objs, a) == Out(ArrayOfElement(mergeObjectTypes(objs, a.name)), a.ctx)

\* a slip: the merged type is not examined, no warning is pushed
NoObjectsUnwarned(path, ctx, merged) == Out(ArrayOf(merged), ctx)

\* no element is an object
NoObjects(path, ctx, merged) ==
  Out(ArrayOf(merged),
      IF merged.kind = "union" THEN Push(ctx, MixedTypesWarning(path)) ELSE ctx)

\* mergeTypes([...otherElements, mergedObj])
MergedWithOthers(others, mergedObj) ==
  IF mergedObj = TypeErrorThrown THEN TypeErrorThrown
  ELSE mergeTypes(Append(others, mergedObj))

\* objects and non-objects
MixedElements(others, objs, a) ==
  Out(ArrayOfElement(MergedWithOthers(others, mergeObjectTypes(objs, a.name))),
      a.ctx)

\* inferArray after its for loop, n being arr.length
ArrayFromElements(n, path, e) ==
  IF e.threw THEN Out(TypeErrorThrown, e.ctx)
  ELSE IF Len(e.objs) = n
  THEN AllObjects(e.objs, Allocate(e.ctx, ItemNameSegments(path)))
  ELSE IF Len(e.objs) = 0
  THEN NoObjects(path, e.ctx, mergeTypes(e.others))
  ELSE MixedElements(e.others, e.objs,
                     Allocate(Push(e.ctx, MixedObjectsWarning(path)),
                              ItemNameSegments(path)))

inferArray(arr, path, st, ctx) ==
  IF Len(arr) = 0
  THEN Out(ArrayOf(Unknown), Push(ctx, EmptyArrayWarning(path)))
  ELSE ArrayFromElements(Len(arr), path,
                         InferElements(arr, 1, path, st, ctx, <<>>, <<>>))

\* a slip: the counter is not advanced
CountFieldDropped(ctx) == ctx

\* fieldCount++
CountField(ctx) == [ctx EXCEPT !.fieldCount = @ + 1]

\* the body of inferObject's for loop, r being the child's inferred type
EntryStep(entries, i, path, st, props, r) ==
  IF r.type = TypeErrorThrown
  THEN [props |-> props, ctx |-> r.ctx, threw |-> TRUE]
  ELSE InferEntries(entries, i + 1, path, st, r.ctx,
                    SetProp(props, PropertyOf(entries[i].key, r.type)))

\* the for loop of inferObject: the property map and the closure
InferEntries(entries, i, path, st, ctx, props) ==
  IF i > Len(entries) THEN [props |-> props, ctx |-> ctx, threw |-> FALSE]
  ELSE EntryStep(entries, i, path, st, props,
                 infer(entries[i].val, Append(path, entries[i].key), st,
                       CountField(ctx)))

NamedObject(props, a) == Out(ObjectOfMap(props, a.name), a.ctx)

\* inferObject after its for loop
ObjectFromEntries(path, st, e) ==
  IF e.threw THEN Out(TypeErrorThrown, e.ctx)
  ELSE NamedObject(e.props, Allocate(e.ctx, ObjectNameSegments(path, st)))

inferObject(obj, path, st, ctx) ==
  ObjectFromEntries(path, st, InferEntries(obj.entries, 1, path, st, ctx, EmptyMap))

\* a slip: the detectDates setting is not consulted
IsDateWhateverTheSetting(str, st) == IsoDateTest(str)

\* settings.detectDates && ISO_DATE_REGEX.test(val)
IsDate(str, st) == st.detectDates /\ IsoDateTest(str)

infer(val, path, st, ctx) ==
  CASE val.t = "null"    -> Out(NullType, ctx)
    [] val.t = "string"  ->
         IF IsDate(val.s, st)
         THEN Out(DateString, Push(ctx, DateInfo(path)))
         ELSE Out(Primitive("string"), ctx)
    [] val.t = "number"  -> Out(Primitive("number"), ctx)
    [] val.t = "boolean" -> Out(Primitive("boolean"), ctx)
    [] val.t = "array"   -> inferArray(val.items, path, st, ctx)
    [] val.t = "object"  -> inferObject(val, path, st, ctx)
    [] OTHER             -> Out(Unknown, ctx)

\* a slip: typeof value !== "object" alone, which lets null through
RootCheckWithoutNull(val) == val.t \notin {"object", "array", "null"}

\* typeof value !== "object" || value === null
RootIsNotObjectOrArray(val) == val.t \notin {"object", "array"}

RootError == Diagnostic("error", "Root value must be an object or array.", <<>>, <<>>)

\* a slip: one module-level NameGenerator shared by every invocation
SharedNameGenerator(previous) == previous

\* const nameGen = new NameGenerator(): a new instance with no name used,
\* whatever the instance of the invocation before holds
NewNameGenerator(previous) == EmptyNames

\* rootType.typeName = settings.rootTypeName, for an object root
RenameRoot(rootType, st) ==
  IF rootType.kind = "object"
  THEN [rootType EXCEPT !.typeName = st.rootTypeName]
  ELSE rootType

\* the InferResult, and with it the allocator the invocation leaves behind
RunResult(ty, ctx) ==
  [type |-> ty, diagnostics |-> ctx.diagnostics, fieldCount |-> ctx.fieldCount,
   used |-> ctx.used]

ErrorRun(r)   == RunResult(r.type, r.ctx)
NormalRun(r, st) == RunResult(RenameRoot(r.type, st), r.ctx)

\* one invocation of inferType, previous being the usedNames of the
\* NameGenerator the invocation before it built
InferRun(val, st, previous) ==
  IF RootIsNotObjectOrArray(val)
  THEN ErrorRun(infer(val, <<>>, st,
                      Push(Ctx(<<>>, NewNameGenerator(previous), 0), RootError)))
  ELSE NormalRun(infer(val, <<>>, st, Ctx(<<>>, NewNameGenerator(previous), 0)), st)

InferResultOf(r) ==
  [type |-> r.type, diagnostics |-> r.diagnostics, fieldCount |-> r.fieldCount]

\* the InferResult returned, or the TypeError the invocation ended with
ResultOrThrown(r) ==
  IF r.type = TypeErrorThrown THEN TypeErrorThrown ELSE InferResultOf(r)

\* inferType as its callers see it: no invocation hands anything to the next
inferType(val, st) == ResultOrThrown(InferRun(val, st, EmptyNames))

----------------------------------------------------------------------------
(* lib/infer/parse.ts *)

\* the white space of the JSON grammar
JsonWhitespace == {" ", "\t", "\n", "\r"}
Quote == "\""

\* !input.trim()
IsBlank(input) == \A i \in 1..Len(input) : input[i] \in JsWhiteSpace

SIZE_LIMIT == 1024 * 1024

(* JSON.parse.  A parse step returns the value and the position after it, or *)
(* fails.  A number is kept as JNumber whatever its digits: the program     *)
(* reads nothing of a number but its typeof.                                *)
Fail == [ok |-> FALSE]
Parsed(val, next) == [ok |-> TRUE, val |-> val, next |-> next]

CharAt(s, i) == IF i <= Len(s) THEN s[i] ELSE ""

RECURSIVE SkipWs(_, _)
SkipWs(s, i) ==
  IF i <= Len(s) /\ s[i] \in JsonWhitespace THEN SkipWs(s, i + 1) ELSE i

Literal(s, i, word, val) ==
  IF i + Len(word) - 1 <= Len(s) /\ SubSeq(s, i, i + Len(word) - 1) = word
  THEN Parsed(val, i + Len(word)) ELSE Fail

\* the position after the digits that start at i
RECURSIVE DigitsEnd(_, _)
DigitsEnd(s, i) ==
  IF i <= Len(s) /\ IsDigit(s[i]) THEN DigitsEnd(s, i + 1) ELSE i

\* The parts of a number, -? (0 | [1-9][0-9]*) (.[0-9]+)? ([eE][+-]?[0-9]+)?,
\* each giving the position after it, or 0 where the text is no number.
\* A leading 0 is an integer part by itself.
IntegerEnd(s, i) ==
  IF ~IsDigit(CharAt(s, i)) THEN 0
  ELSE IF s[i] = "0" THEN i + 1
  ELSE DigitsEnd(s, i)

FractionPartEnd(s, i) ==
  IF i = 0 THEN 0
  ELSE IF CharAt(s, i) # "." THEN i
  ELSE IF IsDigit(CharAt(s, i + 1)) THEN DigitsEnd(s, i + 1)
  ELSE 0

ExponentDigits(s, i) == IF IsDigit(CharAt(s, i)) THEN DigitsEnd(s, i) ELSE 0

ExponentEnd(s, i) ==
  IF i = 0 THEN 0
  ELSE IF CharAt(s, i) \notin {"e", "E"} THEN i
  ELSE IF CharAt(s, i + 1) \in {"+", "-"} THEN ExponentDigits(s, i + 2)
  ELSE ExponentDigits(s, i + 1)

AfterSign(s, i) == IF CharAt(s, i) = "-" THEN i + 1 ELSE i

NumberEnd(s, i) == ExponentEnd(s, FractionPartEnd(s, IntegerEnd(s, AfterSign(s, i))))

NumberUpTo(e) == IF e = 0 THEN Fail ELSE Parsed(JNumber, e)

ParseNumber(s, i) == NumberUpTo(NumberEnd(s, i))

\* the characters below U+0020, which a string of a JSON text holds only
\* escaped
ControlChars == {
  "\\u0000", "\\u0001", "\\u0002", "\\u0003", "\\u0004", "\\u0005",
  "\\u0006", "\\u0007", "\\u0008", "\t", "\n", "\\u000B", "\f", "\r",
  "\\u000E", "\\u000F", "\\u0010", "\\u0011", "\\u0012", "\\u0013",
  "\\u0014", "\\u0015", "\\u0016", "\\u0017", "\\u0018", "\\u0019",
  "\\u001A", "\\u001B", "\\u001C", "\\u001D", "\\u001E", "\\u001F" }

HexDigits == <<"0","1","2","3","4","5","6","7","8","9","A","B","C","D","E","F">>
HexLower  == <<"a","b","c","d","e","f">>

IsHex(c) ==
  \/ \E v \in 1..16 : HexDigits[v] = c
  \/ \E v \in 1..6 : HexLower[v] = c

HexValue(c) ==
  IF \E v \in 1..6 : HexLower[v] = c
  THEN 9 + (CHOOSE v \in 1..6 : HexLower[v] = c)
  ELSE (CHOOSE v \in 1..16 : HexDigits[v] = c) - 1

HasHex4(s, i) == i + 3 <= Len(s) /\ \A k \in i..(i + 3) : IsHex(s[k])

\* the code unit written by the four hexadecimal digits at i
CodeOf(s, i) ==
  4096 * HexValue(s[i]) + 256 * HexValue(s[i + 1])
  + 16 * HexValue(s[i + 2]) + HexValue(s[i + 3])

(* The code units as this module writes them: the character itself, or,      *)
(* where a string of this module cannot hold the character, the characters   *)
(* \uXXXX of its code.  LowUnits are the units below U+0100; RawBlocks[h] are *)
(* the units from 256 * h + 128 to 256 * h + 255 written as themselves.      *)
LowUnits == <<
  "\\u0000", "\\u0001", "\\u0002", "\\u0003", "\\u0004", "\\u0005",
  "\\u0006", "\\u0007", "\\u0008", "\t", "\n", "\\u000B", "\f", "\r",
  "\\u000E", "\\u000F", "\\u0010", "\\u0011", "\\u0012", "\\u0013",
  "\\u0014", "\\u0015", "\\u0016", "\\u0017", "\\u0018", "\\u0019",
  "\\u001A", "\\u001B", "\\u001C", "\\u001D", "\\u001E", "\\u001F", " ",
  "!", "\"", "#", "$", "%", "&", "'", "(", ")", "*", "+", ",", "-", ".",
  "/", "0", "1", "2", "3", "4", "5", "6", "7", "8", "9", ":", ";", "<",
  "=", ">", "?", "@", "A", "B", "C", "D", "E", "F", "G", "H", "I", "J",
  "K", "L", "M", "N", "O", "P", "Q", "R", "S", "T", "U", "V", "W", "X",
  "Y", "Z", "[", "\\", "]", "^", "_", "\\u0060", "a", "b", "c", "d", "e",
  "f", "g", "h", "i", "j", "k", "l", "m", "n", "o", "p", "q", "r", "s",
  "t", "u", "v", "w", "x", "y", "z", "{", "|", "}", "~", "\\u007F",
  "\\u0080", "\\u0081", "\\u0082", "\\u0083", "\\u0084", "\\u0085",
  "\\u0086", "\\u0087", "\\u0088", "\\u0089", "\\u008A", "\\u008B",
  "\\u008C", "\\u008D", "\\u008E", "\\u008F", "\\u0090", "\\u0091",
  "\\u0092", "\\u0093", "\\u0094", "\\u0095", "\\u0096", "\\u0097",
  "\\u0098", "\\u0099", "\\u009A", "\\u009B", "\\u009C", "\\u009D",
  "\\u009E", "\\u009F", " ", "¡", "¢", "£", "¤", "¥", "¦", "§", "¨", "©",
  "ª", "«", "¬", "­", "®", "¯", "°", "±", "²", "³", "´", "µ", "¶", "·",
  "¸", "¹", "º", "»", "¼", "½", "¾", "¿", "À", "Á", "Â", "Ã", "Ä", "Å",
  "Æ", "Ç", "È", "É", "Ê", "Ë", "Ì", "Í", "Î", "Ï", "Ð", "Ñ", "Ò", "Ó",
  "Ô", "Õ", "Ö", "×", "Ø", "Ù", "Ú", "Û", "Ü", "Ý", "Þ", "ß", "à", "á",
  "â", "ã", "ä", "å", "æ", "ç", "è", "é", "ê", "ë", "ì", "í", "î", "ï",
  "ð", "ñ", "ò", "ó", "ô", "õ", "ö", "÷", "ø", "ù", "ú", "û", "ü", "ý",
  "þ", "ÿ" >>

RawBlocks == <<
  "ƀƁƂƃƄƅƆƇƈƉƊƋƌƍƎƏƐƑƒƓƔƕƖƗƘƙƚƛƜƝƞƟƠơƢƣƤƥƦƧƨƩƪƫƬƭƮƯưƱƲƳƴƵƶƷƸƹƺƻƼƽƾƿǀǁǂǃǄǅǆǇǈǉǊǋǌǍǎǏǐǑǒǓǔǕǖǗǘǙǚǛǜǝǞǟǠǡǢǣǤǥǦǧǨǩǪǫǬǭǮǯǰǱǲǳǴǵǶǷǸǹǺǻǼǽǾǿ",
  "ʀʁʂʃʄʅʆʇʈʉʊʋʌʍʎʏʐʑʒʓʔʕʖʗʘʙʚʛʜʝʞʟʠʡʢʣʤʥʦʧʨʩʪʫʬʭʮʯʰʱʲʳʴʵʶʷʸʹʺʻʼʽʾʿˀˁ˂˃˄˅ˆˇˈˉˊˋˌˍˎˏːˑ˒˓˔˕˖˗˘˙˚˛˜˝˞˟ˠˡˢˣˤ˥˦˧˨˩˪˫ˬ˭ˮ˯˰˱˲˳˴˵˶˷˸˹˺˻˼˽˾˿",
  "΀΁΂΃΄΅Ά·ΈΉΊ΋Ό΍ΎΏΐΑΒΓΔΕΖΗΘΙΚΛΜΝΞΟΠΡ΢ΣΤΥΦΧΨΩΪΫάέήίΰαβγδεζηθικλμνξοπρςστυφχψωϊϋόύώϏϐϑϒϓϔϕϖϗϘϙϚϛϜϝϞϟϠϡϢϣϤϥϦϧϨϩϪϫϬϭϮϯϰϱϲϳϴϵ϶ϷϸϹϺϻϼϽϾϿ",
  "Ҁҁ҂҃҄҅҆҇҈҉ҊҋҌҍҎҏҐґҒғҔҕҖҗҘҙҚқҜҝҞҟҠҡҢңҤҥҦҧҨҩҪҫҬҭҮүҰұҲҳҴҵҶҷҸҹҺһҼҽҾҿӀӁӂӃӄӅӆӇӈӉӊӋӌӍӎӏӐӑӒӓӔӕӖӗӘәӚӛӜӝӞӟӠӡӢӣӤӥӦӧӨөӪӫӬӭӮӯӰӱӲӳӴӵӶӷӸӹӺӻӼӽӾӿ",
  "րցւփքօֆևֈ։֊֋֌֍֎֏֐ְֱֲֳִֵֶַָֹֺֻּֽ֑֖֛֢֣֤֥֦֧֪֚֭֮֒֓֔֕֗֘֙֜֝֞֟֠֡֨֩֫֬֯־ֿ׀ׁׂ׃ׅׄ׆ׇ׈׉׊׋׌׍׎׏אבגדהוזחטיךכלםמןנסעףפץצקרשת׫׬׭׮ׯװױײ׳״׵׶׷׸׹׺׻׼׽׾׿",
  "ڀځڂڃڄڅچڇڈډڊڋڌڍڎڏڐڑڒړڔڕږڗژڙښڛڜڝڞڟڠڡڢڣڤڥڦڧڨکڪګڬڭڮگڰڱڲڳڴڵڶڷڸڹںڻڼڽھڿۀہۂۃۄۅۆۇۈۉۊۋیۍێۏېۑےۓ۔ەۖۗۘۙۚۛۜ۝۞ۣ۟۠ۡۢۤۥۦۧۨ۩۪ۭ۫۬ۮۯ۰۱۲۳۴۵۶۷۸۹ۺۻۼ۽۾ۿ",
  "ހށނރބޅކއވމފދތލގޏސޑޒޓޔޕޖޗޘޙޚޛޜޝޞޟޠޡޢޣޤޥަާިީުޫެޭޮޯްޱ޲޳޴޵޶޷޸޹޺޻޼޽޾޿߀߁߂߃߄߅߆߇߈߉ߊߋߌߍߎߏߐߑߒߓߔߕߖߗߘߙߚߛߜߝߞߟߠߡߢߣߤߥߦߧߨߩߪ߲߫߬߭߮߯߰߱߳ߴߵ߶߷߸߹ߺ߻߼߽߾߿",
  "ࢀࢁࢂࢃࢄࢅࢆࢇ࢈ࢉࢊࢋࢌࢍࢎ࢏࢐࢑࢒࢓࢔࢕࢖࢙࢚࢛ࢗ࢘࢜࢝࢞࢟ࢠࢡࢢࢣࢤࢥࢦࢧࢨࢩࢪࢫࢬࢭࢮࢯࢰࢱࢲࢳࢴࢵࢶࢷࢸࢹࢺࢻࢼࢽࢾࢿࣀࣁࣂࣃࣄࣅࣆࣇࣈࣉ࣏࣐࣑࣒࣓࣊࣋࣌࣍࣎ࣔࣕࣖࣗࣘࣙࣚࣛࣜࣝࣞࣟ࣠࣡࣢ࣰࣱࣲࣣࣦࣩ࣭࣮࣯ࣶࣹࣺࣤࣥࣧࣨ࣪࣫࣬ࣳࣴࣵࣷࣸࣻࣼࣽࣾࣿ",
  "ঀঁংঃ঄অআইঈউঊঋঌ঍঎এঐ঑঒ওঔকখগঘঙচছজঝঞটঠডঢণতথদধন঩পফবভমযর঱ল঳঴঵শষসহ঺঻়ঽািীুূৃৄ৅৆েৈ৉৊োৌ্ৎ৏৐৑৒৓৔৕৖ৗ৘৙৚৛ড়ঢ়৞য়ৠৡৢৣ৤৥০১২৩৪৫৬৭৮৯ৰৱ৲৳৴৵৶৷৸৹৺৻ৼ৽৾৿",
  "઀ઁંઃ઄અઆઇઈઉઊઋઌઍ઎એઐઑ઒ઓઔકખગઘઙચછજઝઞટઠડઢણતથદધન઩પફબભમયર઱લળ઴વશષસહ઺઻઼ઽાિીુૂૃૄૅ૆ેૈૉ૊ોૌ્૎૏ૐ૑૒૓૔૕૖૗૘૙૚૛૜૝૞૟ૠૡૢૣ૤૥૦૧૨૩૪૫૬૭૮૯૰૱૲૳૴૵૶૷૸ૹૺૻૼ૽૾૿",
  "஀஁ஂஃ஄அஆஇஈஉஊ஋஌஍எஏஐ஑ஒஓஔக஖஗஘ஙச஛ஜ஝ஞட஠஡஢ணத஥஦஧நனப஫஬஭மயரறலளழவஶஷஸஹ஺஻஼஽ாிீுூ௃௄௅ெேை௉ொோௌ்௎௏ௐ௑௒௓௔௕௖ௗ௘௙௚௛௜௝௞௟௠௡௢௣௤௥௦௧௨௩௪௫௬௭௮௯௰௱௲௳௴௵௶௷௸௹௺௻௼௽௾௿",
  "ಀಁಂಃ಄ಅಆಇಈಉಊಋಌ಍ಎಏಐ಑ಒಓಔಕಖಗಘಙಚಛಜಝಞಟಠಡಢಣತಥದಧನ಩ಪಫಬಭಮಯರಱಲಳ಴ವಶಷಸಹ಺಻಼ಽಾಿೀುೂೃೄ೅ೆೇೈ೉ೊೋೌ್೎೏೐೑೒೓೔ೕೖ೗೘೙೚೛೜ೝೞ೟ೠೡೢೣ೤೥೦೧೨೩೪೫೬೭೮೯೰ೱೲೳ೴೵೶೷೸೹೺೻೼೽೾೿",
  "඀ඁංඃ඄අආඇඈඉඊඋඌඍඎඏඐඑඒඓඔඕඖ඗඘඙කඛගඝඞඟචඡජඣඤඥඦටඨඩඪණඬතථදධන඲ඳපඵබභමඹයර඼ල඾඿වශෂසහළෆ෇෈෉්෋෌෍෎ාැෑිීු෕ූ෗ෘෙේෛොෝෞෟ෠෡෢෣෤෥෦෧෨෩෪෫෬෭෮෯෰෱ෲෳ෴෵෶෷෸෹෺෻෼෽෾෿",
  "຀ກຂ຃ຄ຅ຆງຈຉຊ຋ຌຍຎຏຐຑຒຓດຕຖທຘນບປຜຝພຟຠມຢຣ຤ລ຦ວຨຩສຫຬອຮຯະັາຳິີຶື຺ຸູົຼຽ຾຿ເແໂໃໄ໅ໆ໇່້໊໋໌ໍ໎໏໐໑໒໓໔໕໖໗໘໙໚໛ໜໝໞໟ໠໡໢໣໤໥໦໧໨໩໪໫໬໭໮໯໰໱໲໳໴໵໶໷໸໹໺໻໼໽໾໿",
  "྄ཱྀྀྂྃ྅྆྇ྈྉྊྋྌྍྎྏྐྑྒྒྷྔྕྖྗ྘ྙྚྛྜྜྷྞྟྠྡྡྷྣྤྥྦྦྷྨྩྪྫྫྷྭྮྯྰྱྲླྴྵྶྷྸྐྵྺྻྼ྽྾྿࿀࿁࿂࿃࿄࿅࿆࿇࿈࿉࿊࿋࿌࿍࿎࿏࿐࿑࿒࿓࿔࿕࿖࿗࿘࿙࿚࿛࿜࿝࿞࿟࿠࿡࿢࿣࿤࿥࿦࿧࿨࿩࿪࿫࿬࿭࿮࿯࿰࿱࿲࿳࿴࿵࿶࿷࿸࿹࿺࿻࿼࿽࿾࿿",
  "ႀႁႂႃႄႅႆႇႈႉႊႋႌႍႎႏ႐႑႒႓႔႕႖႗႘႙ႚႛႜႝ႞႟ႠႡႢႣႤႥႦႧႨႩႪႫႬႭႮႯႰႱႲႳႴႵႶႷႸႹႺႻႼႽႾႿჀჁჂჃჄჅ჆Ⴧ჈჉჊჋჌Ⴭ჎჏აბგდევზთიკლმნოპჟრსტუფქღყშჩცძწჭხჯჰჱჲჳჴჵჶჷჸჹჺ჻ჼჽჾჿ",
  "ᆀᆁᆂᆃᆄᆅᆆᆇᆈᆉᆊᆋᆌᆍᆎᆏᆐᆑᆒᆓᆔᆕᆖᆗᆘᆙᆚᆛᆜᆝᆞᆟᆠᆡᆢᆣᆤᆥᆦᆧᆨᆩᆪᆫᆬᆭᆮᆯᆰᆱᆲᆳᆴᆵᆶᆷᆸᆹᆺᆻᆼᆽᆾᆿᇀᇁᇂᇃᇄᇅᇆᇇᇈᇉᇊᇋᇌᇍᇎᇏᇐᇑᇒᇓᇔᇕᇖᇗᇘᇙᇚᇛᇜᇝᇞᇟᇠᇡᇢᇣᇤᇥᇦᇧᇨᇩᇪᇫᇬᇭᇮᇯᇰᇱᇲᇳᇴᇵᇶᇷᇸᇹᇺᇻᇼᇽᇾᇿ",
  "ኀኁኂኃኄኅኆኇኈ኉ኊኋኌኍ኎኏ነኑኒናኔንኖኗኘኙኚኛኜኝኞኟአኡኢኣኤእኦኧከኩኪካኬክኮኯኰ኱ኲኳኴኵ኶኷ኸኹኺኻኼኽኾ኿ዀ዁ዂዃዄዅ዆዇ወዉዊዋዌውዎዏዐዑዒዓዔዕዖ዗ዘዙዚዛዜዝዞዟዠዡዢዣዤዥዦዧየዩዪያዬይዮዯደዱዲዳዴድዶዷዸዹዺዻዼዽዾዿ",
  "ᎀᎁᎂᎃᎄᎅᎆᎇᎈᎉᎊᎋᎌᎍᎎᎏ᎐᎑᎒᎓᎔᎕᎖᎗᎘᎙᎚᎛᎜᎝᎞᎟ᎠᎡᎢᎣᎤᎥᎦᎧᎨᎩᎪᎫᎬᎭᎮᎯᎰᎱᎲᎳᎴᎵᎶᎷᎸᎹᎺᎻᎼᎽᎾᎿᏀᏁᏂᏃᏄᏅᏆᏇᏈᏉᏊᏋᏌᏍᏎᏏᏐᏑᏒᏓᏔᏕᏖᏗᏘᏙᏚᏛᏜᏝᏞᏟᏠᏡᏢᏣᏤᏥᏦᏧᏨᏩᏪᏫᏬᏭᏮᏯᏰᏱᏲᏳᏴᏵ᏶᏷ᏸᏹᏺᏻᏼᏽ᏾᏿",
  "ᒀᒁᒂᒃᒄᒅᒆᒇᒈᒉᒊᒋᒌᒍᒎᒏᒐᒑᒒᒓᒔᒕᒖᒗᒘᒙᒚᒛᒜᒝᒞᒟᒠᒡᒢᒣᒤᒥᒦᒧᒨᒩᒪᒫᒬᒭᒮᒯᒰᒱᒲᒳᒴᒵᒶᒷᒸᒹᒺᒻᒼᒽᒾᒿᓀᓁᓂᓃᓄᓅᓆᓇᓈᓉᓊᓋᓌᓍᓎᓏᓐᓑᓒᓓᓔᓕᓖᓗᓘᓙᓚᓛᓜᓝᓞᓟᓠᓡᓢᓣᓤᓥᓦᓧᓨᓩᓪᓫᓬᓭᓮᓯᓰᓱᓲᓳᓴᓵᓶᓷᓸᓹᓺᓻᓼᓽᓾᓿ",
  "ᖀᖁᖂᖃᖄᖅᖆᖇᖈᖉᖊᖋᖌᖍᖎᖏᖐᖑᖒᖓᖔᖕᖖᖗᖘᖙᖚᖛᖜᖝᖞᖟᖠᖡᖢᖣᖤᖥᖦᖧᖨᖩᖪᖫᖬᖭᖮᖯᖰᖱᖲᖳᖴᖵᖶᖷᖸᖹᖺᖻᖼᖽᖾᖿᗀᗁᗂᗃᗄᗅᗆᗇᗈᗉᗊᗋᗌᗍᗎᗏᗐᗑᗒᗓᗔᗕᗖᗗᗘᗙᗚᗛᗜᗝᗞᗟᗠᗡᗢᗣᗤᗥᗦᗧᗨᗩᗪᗫᗬᗭᗮᗯᗰᗱᗲᗳᗴᗵᗶᗷᗸᗹᗺᗻᗼᗽᗾᗿ",
  " ᚁᚂᚃᚄᚅᚆᚇᚈᚉᚊᚋᚌᚍᚎᚏᚐᚑᚒᚓᚔᚕᚖᚗᚘᚙᚚ᚛᚜᚝᚞᚟ᚠᚡᚢᚣᚤᚥᚦᚧᚨᚩᚪᚫᚬᚭᚮᚯᚰᚱᚲᚳᚴᚵᚶᚷᚸᚹᚺᚻᚼᚽᚾᚿᛀᛁᛂᛃᛄᛅᛆᛇᛈᛉᛊᛋᛌᛍᛎᛏᛐᛑᛒᛓᛔᛕᛖᛗᛘᛙᛚᛛᛜᛝᛞᛟᛠᛡᛢᛣᛤᛥᛦᛧᛨᛩᛪ᛫᛬᛭ᛮᛯᛰᛱᛲᛳᛴᛵᛶᛷᛸ᛹᛺᛻᛼᛽᛾᛿",
  "កខគឃងចឆជឈញដឋឌឍណតថទធនបផពភមយរលវឝឞសហឡអឣឤឥឦឧឨឩឪឫឬឭឮឯឰឱឲឳ឴឵ាិីឹឺុូួើឿៀេែៃោៅំះៈ៉៊់៌៍៎៏័៑្៓។៕៖ៗ៘៙៚៛ៜ៝៞៟០១២៣៤៥៦៧៨៩៪៫៬៭៮៯៰៱៲៳៴៵៶៷៸៹៺៻៼៽៾៿",
  "ᢀᢁᢂᢃᢄᢅᢆᢇᢈᢉᢊᢋᢌᢍᢎᢏᢐᢑᢒᢓᢔᢕᢖᢗᢘᢙᢚᢛᢜᢝᢞᢟᢠᢡᢢᢣᢤᢥᢦᢧᢨᢩᢪ᢫᢬᢭᢮᢯ᢰᢱᢲᢳᢴᢵᢶᢷᢸᢹᢺᢻᢼᢽᢾᢿᣀᣁᣂᣃᣄᣅᣆᣇᣈᣉᣊᣋᣌᣍᣎᣏᣐᣑᣒᣓᣔᣕᣖᣗᣘᣙᣚᣛᣜᣝᣞᣟᣠᣡᣢᣣᣤᣥᣦᣧᣨᣩᣪᣫᣬᣭᣮᣯᣰᣱᣲᣳᣴᣵ᣶᣷᣸᣹᣺᣻᣼᣽᣾᣿",
  "ᦀᦁᦂᦃᦄᦅᦆᦇᦈᦉᦊᦋᦌᦍᦎᦏᦐᦑᦒᦓᦔᦕᦖᦗᦘᦙᦚᦛᦜᦝᦞᦟᦠᦡᦢᦣᦤᦥᦦᦧᦨᦩᦪᦫ᦬᦭᦮᦯ᦰᦱᦲᦳᦴᦵᦶᦷᦸᦹᦺᦻᦼᦽᦾᦿᧀᧁᧂᧃᧄᧅᧆᧇᧈᧉ᧊᧋᧌᧍᧎᧏᧐᧑᧒᧓᧔᧕᧖᧗᧘᧙᧚᧛᧜᧝᧞᧟᧠᧡᧢᧣᧤᧥᧦᧧᧨᧩᧪᧫᧬᧭᧮᧯᧰᧱᧲᧳᧴᧵᧶᧷᧸᧹᧺᧻᧼᧽᧾᧿",
  "᪀᪁᪂᪃᪄᪅᪆᪇᪈᪉᪊᪋᪌᪍᪎᪏᪐᪑᪒᪓᪔᪕᪖᪗᪘᪙᪚᪛᪜᪝᪞᪟᪠᪡᪢᪣᪤᪥᪦ᪧ᪨᪩᪪᪫᪬᪭᪮᪯᪵᪶᪷᪸᪹᪺᪽᪰᪱᪲᪳᪴᪻᪼᪾ᪿᫀ᫃᫄᫊᫁᫂᫅᫆᫇᫈᫉᫋ᫌᫍᫎ᫏᫐᫑᫒᫓᫔᫕᫖᫗᫘᫙᫚᫛᫜᫝᫞᫟᫠᫡᫢᫣᫤᫥᫦᫧᫨᫩᫪᫫᫬᫭᫮᫯᫰᫱᫲᫳᫴᫵᫶᫷᫸᫹᫺᫻᫼᫽᫾᫿",
  "ᮀᮁᮂᮃᮄᮅᮆᮇᮈᮉᮊᮋᮌᮍᮎᮏᮐᮑᮒᮓᮔᮕᮖᮗᮘᮙᮚᮛᮜᮝᮞᮟᮠᮡᮢᮣᮤᮥᮦᮧᮨᮩ᮪᮫ᮬᮭᮮᮯ᮰᮱᮲᮳᮴᮵᮶᮷᮸᮹ᮺᮻᮼᮽᮾᮿᯀᯁᯂᯃᯄᯅᯆᯇᯈᯉᯊᯋᯌᯍᯎᯏᯐᯑᯒᯓᯔᯕᯖᯗᯘᯙᯚᯛᯜᯝᯞᯟᯠᯡᯢᯣᯤᯥ᯦ᯧᯨᯩᯪᯫᯬᯭᯮᯯᯰᯱ᯲᯳᯴᯵᯶᯷᯸᯹᯺᯻᯼᯽᯾᯿",
  "ᲀᲁᲂᲃᲄᲅᲆᲇᲈᲉᲊ᲋᲌᲍᲎᲏ᲐᲑᲒᲓᲔᲕᲖᲗᲘᲙᲚᲛᲜᲝᲞᲟᲠᲡᲢᲣᲤᲥᲦᲧᲨᲩᲪᲫᲬᲭᲮᲯᲰᲱᲲᲳᲴᲵᲶᲷᲸᲹᲺ᲻᲼ᲽᲾᲿ᳀᳁᳂᳃᳄᳅᳆᳇᳈᳉᳊᳋᳌᳍᳎᳏᳐᳑᳒᳓᳔᳕᳖᳗᳘᳙᳜᳝᳞᳟᳚᳛᳠᳡᳢᳣᳤᳥᳦᳧᳨ᳩᳪᳫᳬ᳭ᳮᳯᳰᳱᳲᳳ᳴ᳵᳶ᳷᳸᳹ᳺ᳻᳼᳽᳾᳿",
  "ᶀᶁᶂᶃᶄᶅᶆᶇᶈᶉᶊᶋᶌᶍᶎᶏᶐᶑᶒᶓᶔᶕᶖᶗᶘᶙᶚᶛᶜᶝᶞᶟᶠᶡᶢᶣᶤᶥᶦᶧᶨᶩᶪᶫᶬᶭᶮᶯᶰᶱᶲᶳᶴᶵᶶᶷᶸᶹᶺᶻᶼᶽᶾᶿ᷐᷎᷺᷂᷊᷏᷹᷽᷿᷷᷸᷀᷁᷃᷄᷅᷆᷇᷈᷉᷋᷌᷑᷒ᷓᷔᷕᷖᷗᷘᷙᷚᷛᷜᷝᷞᷟᷠᷡᷢᷣᷤᷥᷦᷧᷨᷩᷪᷫᷬᷭᷮᷯᷰᷱᷲᷳᷴ᷵᷻᷾᷶᷼᷍",
  "ẀẁẂẃẄẅẆẇẈẉẊẋẌẍẎẏẐẑẒẓẔẕẖẗẘẙẚẛẜẝẞẟẠạẢảẤấẦầẨẩẪẫẬậẮắẰằẲẳẴẵẶặẸẹẺẻẼẽẾếỀềỂểỄễỆệỈỉỊịỌọỎỏỐốỒồỔổỖỗỘộỚớỜờỞởỠỡỢợỤụỦủỨứỪừỬửỮữỰựỲỳỴỵỶỷỸỹỺỻỼỽỾỿ",
  "ᾀᾁᾂᾃᾄᾅᾆᾇᾈᾉᾊᾋᾌᾍᾎᾏᾐᾑᾒᾓᾔᾕᾖᾗᾘᾙᾚᾛᾜᾝᾞᾟᾠᾡᾢᾣᾤᾥᾦᾧᾨᾩᾪᾫᾬᾭᾮᾯᾰᾱᾲᾳᾴ᾵ᾶᾷᾸᾹᾺΆᾼ᾽ι᾿῀῁ῂῃῄ῅ῆῇῈΈῊΉῌ῍῎῏ῐῑῒΐ῔῕ῖῗῘῙῚΊ῜῝῞῟ῠῡῢΰῤῥῦῧῨῩῪΎῬ῭΅`῰῱ῲῳῴ῵ῶῷῸΌῺΏῼ´῾῿",
  "₀₁₂₃₄₅₆₇₈₉₊₋₌₍₎₏ₐₑₒₓₔₕₖₗₘₙₚₛₜ₝₞₟₠₡₢₣₤₥₦₧₨₩₪₫€₭₮₯₰₱₲₳₴₵₶₷₸₹₺₻₼₽₾₿⃀⃁⃂⃃⃄⃅⃆⃇⃈⃉⃊⃋⃌⃍⃎⃏⃒⃓⃘⃙⃚⃐⃑⃔⃕⃖⃗⃛⃜⃝⃞⃟⃠⃡⃢⃣⃤⃥⃦⃪⃫⃨⃬⃭⃮⃯⃧⃩⃰⃱⃲⃳⃴⃵⃶⃷⃸⃹⃺⃻⃼⃽⃾⃿",
  "ↀↁↂↃↄↅↆↇↈ↉↊↋↌↍↎↏←↑→↓↔↕↖↗↘↙↚↛↜↝↞↟↠↡↢↣↤↥↦↧↨↩↪↫↬↭↮↯↰↱↲↳↴↵↶↷↸↹↺↻↼↽↾↿⇀⇁⇂⇃⇄⇅⇆⇇⇈⇉⇊⇋⇌⇍⇎⇏⇐⇑⇒⇓⇔⇕⇖⇗⇘⇙⇚⇛⇜⇝⇞⇟⇠⇡⇢⇣⇤⇥⇦⇧⇨⇩⇪⇫⇬⇭⇮⇯⇰⇱⇲⇳⇴⇵⇶⇷⇸⇹⇺⇻⇼⇽⇾⇿",
  "⊀⊁⊂⊃⊄⊅⊆⊇⊈⊉⊊⊋⊌⊍⊎⊏⊐⊑⊒⊓⊔⊕⊖⊗⊘⊙⊚⊛⊜⊝⊞⊟⊠⊡⊢⊣⊤⊥⊦⊧⊨⊩⊪⊫⊬⊭⊮⊯⊰⊱⊲⊳⊴⊵⊶⊷⊸⊹⊺⊻⊼⊽⊾⊿⋀⋁⋂⋃⋄⋅⋆⋇⋈⋉⋊⋋⋌⋍⋎⋏⋐⋑⋒⋓⋔⋕⋖⋗⋘⋙⋚⋛⋜⋝⋞⋟⋠⋡⋢⋣⋤⋥⋦⋧⋨⋩⋪⋫⋬⋭⋮⋯⋰⋱⋲⋳⋴⋵⋶⋷⋸⋹⋺⋻⋼⋽⋾⋿",
  "⎀⎁⎂⎃⎄⎅⎆⎇⎈⎉⎊⎋⎌⎍⎎⎏⎐⎑⎒⎓⎔⎕⎖⎗⎘⎙⎚⎛⎜⎝⎞⎟⎠⎡⎢⎣⎤⎥⎦⎧⎨⎩⎪⎫⎬⎭⎮⎯⎰⎱⎲⎳⎴⎵⎶⎷⎸⎹⎺⎻⎼⎽⎾⎿⏀⏁⏂⏃⏄⏅⏆⏇⏈⏉⏊⏋⏌⏍⏎⏏⏐⏑⏒⏓⏔⏕⏖⏗⏘⏙⏚⏛⏜⏝⏞⏟⏠⏡⏢⏣⏤⏥⏦⏧⏨⏩⏪⏫⏬⏭⏮⏯⏰⏱⏲⏳⏴⏵⏶⏷⏸⏹⏺⏻⏼⏽⏾⏿",
  "⒀⒁⒂⒃⒄⒅⒆⒇⒈⒉⒊⒋⒌⒍⒎⒏⒐⒑⒒⒓⒔⒕⒖⒗⒘⒙⒚⒛⒜⒝⒞⒟⒠⒡⒢⒣⒤⒥⒦⒧⒨⒩⒪⒫⒬⒭⒮⒯⒰⒱⒲⒳⒴⒵ⒶⒷⒸⒹⒺⒻⒼⒽⒾⒿⓀⓁⓂⓃⓄⓅⓆⓇⓈⓉⓊⓋⓌⓍⓎⓏⓐⓑⓒⓓⓔⓕⓖⓗⓘⓙⓚⓛⓜⓝⓞⓟⓠⓡⓢⓣⓤⓥⓦⓧⓨⓩ⓪⓫⓬⓭⓮⓯⓰⓱⓲⓳⓴⓵⓶⓷⓸⓹⓺⓻⓼⓽⓾⓿",
  "▀▁▂▃▄▅▆▇█▉▊▋▌▍▎▏▐░▒▓▔▕▖▗▘▙▚▛▜▝▞▟■□▢▣▤▥▦▧▨▩▪▫▬▭▮▯▰▱▲△▴▵▶▷▸▹►▻▼▽▾▿◀◁◂◃◄◅◆◇◈◉◊○◌◍◎●◐◑◒◓◔◕◖◗◘◙◚◛◜◝◞◟◠◡◢◣◤◥◦◧◨◩◪◫◬◭◮◯◰◱◲◳◴◵◶◷◸◹◺◻◼◽◾◿",
  "⚀⚁⚂⚃⚄⚅⚆⚇⚈⚉⚊⚋⚌⚍⚎⚏⚐⚑⚒⚓⚔⚕⚖⚗⚘⚙⚚⚛⚜⚝⚞⚟⚠⚡⚢⚣⚤⚥⚦⚧⚨⚩⚪⚫⚬⚭⚮⚯⚰⚱⚲⚳⚴⚵⚶⚷⚸⚹⚺⚻⚼⚽⚾⚿⛀⛁⛂⛃⛄⛅⛆⛇⛈⛉⛊⛋⛌⛍⛎⛏⛐⛑⛒⛓⛔⛕⛖⛗⛘⛙⛚⛛⛜⛝⛞⛟⛠⛡⛢⛣⛤⛥⛦⛧⛨⛩⛪⛫⛬⛭⛮⛯⛰⛱⛲⛳⛴⛵⛶⛷⛸⛹⛺⛻⛼⛽⛾⛿",
  "➀➁➂➃➄➅➆➇➈➉➊➋➌➍➎➏➐➑➒➓➔➕➖➗➘➙➚➛➜➝➞➟➠➡➢➣➤➥➦➧➨➩➪➫➬➭➮➯➰➱➲➳➴➵➶➷➸➹➺➻➼➽➾➿⟀⟁⟂⟃⟄⟅⟆⟇⟈⟉⟊⟋⟌⟍⟎⟏⟐⟑⟒⟓⟔⟕⟖⟗⟘⟙⟚⟛⟜⟝⟞⟟⟠⟡⟢⟣⟤⟥⟦⟧⟨⟩⟪⟫⟬⟭⟮⟯⟰⟱⟲⟳⟴⟵⟶⟷⟸⟹⟺⟻⟼⟽⟾⟿",
  "⢀⢁⢂⢃⢄⢅⢆⢇⢈⢉⢊⢋⢌⢍⢎⢏⢐⢑⢒⢓⢔⢕⢖⢗⢘⢙⢚⢛⢜⢝⢞⢟⢠⢡⢢⢣⢤⢥⢦⢧⢨⢩⢪⢫⢬⢭⢮⢯⢰⢱⢲⢳⢴⢵⢶⢷⢸⢹⢺⢻⢼⢽⢾⢿⣀⣁⣂⣃⣄⣅⣆⣇⣈⣉⣊⣋⣌⣍⣎⣏⣐⣑⣒⣓⣔⣕⣖⣗⣘⣙⣚⣛⣜⣝⣞⣟⣠⣡⣢⣣⣤⣥⣦⣧⣨⣩⣪⣫⣬⣭⣮⣯⣰⣱⣲⣳⣴⣵⣶⣷⣸⣹⣺⣻⣼⣽⣾⣿",
  "⦀⦁⦂⦃⦄⦅⦆⦇⦈⦉⦊⦋⦌⦍⦎⦏⦐⦑⦒⦓⦔⦕⦖⦗⦘⦙⦚⦛⦜⦝⦞⦟⦠⦡⦢⦣⦤⦥⦦⦧⦨⦩⦪⦫⦬⦭⦮⦯⦰⦱⦲⦳⦴⦵⦶⦷⦸⦹⦺⦻⦼⦽⦾⦿⧀⧁⧂⧃⧄⧅⧆⧇⧈⧉⧊⧋⧌⧍⧎⧏⧐⧑⧒⧓⧔⧕⧖⧗⧘⧙⧚⧛⧜⧝⧞⧟⧠⧡⧢⧣⧤⧥⧦⧧⧨⧩⧪⧫⧬⧭⧮⧯⧰⧱⧲⧳⧴⧵⧶⧷⧸⧹⧺⧻⧼⧽⧾⧿",
  "⪀⪁⪂⪃⪄⪅⪆⪇⪈⪉⪊⪋⪌⪍⪎⪏⪐⪑⪒⪓⪔⪕⪖⪗⪘⪙⪚⪛⪜⪝⪞⪟⪠⪡⪢⪣⪤⪥⪦⪧⪨⪩⪪⪫⪬⪭⪮⪯⪰⪱⪲⪳⪴⪵⪶⪷⪸⪹⪺⪻⪼⪽⪾⪿⫀⫁⫂⫃⫄⫅⫆⫇⫈⫉⫊⫋⫌⫍⫎⫏⫐⫑⫒⫓⫔⫕⫖⫗⫘⫙⫚⫛⫝̸⫝⫞⫟⫠⫡⫢⫣⫤⫥⫦⫧⫨⫩⫪⫫⫬⫭⫮⫯⫰⫱⫲⫳⫴⫵⫶⫷⫸⫹⫺⫻⫼⫽⫾⫿",
  "⮀⮁⮂⮃⮄⮅⮆⮇⮈⮉⮊⮋⮌⮍⮎⮏⮐⮑⮒⮓⮔⮕⮖⮗⮘⮙⮚⮛⮜⮝⮞⮟⮠⮡⮢⮣⮤⮥⮦⮧⮨⮩⮪⮫⮬⮭⮮⮯⮰⮱⮲⮳⮴⮵⮶⮷⮸⮹⮺⮻⮼⮽⮾⮿⯀⯁⯂⯃⯄⯅⯆⯇⯈⯉⯊⯋⯌⯍⯎⯏⯐⯑⯒⯓⯔⯕⯖⯗⯘⯙⯚⯛⯜⯝⯞⯟⯠⯡⯢⯣⯤⯥⯦⯧⯨⯩⯪⯫⯬⯭⯮⯯⯰⯱⯲⯳⯴⯵⯶⯷⯸⯹⯺⯻⯼⯽⯾⯿",
  "ⲀⲁⲂⲃⲄⲅⲆⲇⲈⲉⲊⲋⲌⲍⲎⲏⲐⲑⲒⲓⲔⲕⲖⲗⲘⲙⲚⲛⲜⲝⲞⲟⲠⲡⲢⲣⲤⲥⲦⲧⲨⲩⲪⲫⲬⲭⲮⲯⲰⲱⲲⲳⲴⲵⲶⲷⲸⲹⲺⲻⲼⲽⲾⲿⳀⳁⳂⳃⳄⳅⳆⳇⳈⳉⳊⳋⳌⳍⳎⳏⳐⳑⳒⳓⳔⳕⳖⳗⳘⳙⳚⳛⳜⳝⳞⳟⳠⳡⳢⳣⳤ⳥⳦⳧⳨⳩⳪ⳫⳬⳭⳮ⳯⳰⳱Ⳳⳳ⳴⳵⳶⳷⳸⳹⳺⳻⳼⳽⳾⳿",
  "ⶀⶁⶂⶃⶄⶅⶆⶇⶈⶉⶊⶋⶌⶍⶎⶏⶐⶑⶒⶓⶔⶕⶖ⶗⶘⶙⶚⶛⶜⶝⶞⶟ⶠⶡⶢⶣⶤⶥⶦ⶧ⶨⶩⶪⶫⶬⶭⶮ⶯ⶰⶱⶲⶳⶴⶵⶶ⶷ⶸⶹⶺⶻⶼⶽⶾ⶿ⷀⷁⷂⷃⷄⷅⷆ⷇ⷈⷉⷊⷋⷌⷍⷎ⷏ⷐⷑⷒⷓⷔⷕⷖ⷗ⷘⷙⷚⷛⷜⷝⷞ⷟ⷠⷡⷢⷣⷤⷥⷦⷧⷨⷩⷪⷫⷬⷭⷮⷯⷰⷱⷲⷳⷴⷵⷶⷷⷸⷹⷺⷻⷼⷽⷾⷿ",
  "⺀⺁⺂⺃⺄⺅⺆⺇⺈⺉⺊⺋⺌⺍⺎⺏⺐⺑⺒⺓⺔⺕⺖⺗⺘⺙⺚⺛⺜⺝⺞⺟⺠⺡⺢⺣⺤⺥⺦⺧⺨⺩⺪⺫⺬⺭⺮⺯⺰⺱⺲⺳⺴⺵⺶⺷⺸⺹⺺⺻⺼⺽⺾⺿⻀⻁⻂⻃⻄⻅⻆⻇⻈⻉⻊⻋⻌⻍⻎⻏⻐⻑⻒⻓⻔⻕⻖⻗⻘⻙⻚⻛⻜⻝⻞⻟⻠⻡⻢⻣⻤⻥⻦⻧⻨⻩⻪⻫⻬⻭⻮⻯⻰⻱⻲⻳⻴⻵⻶⻷⻸⻹⻺⻻⻼⻽⻾⻿",
  "⾀⾁⾂⾃⾄⾅⾆⾇⾈⾉⾊⾋⾌⾍⾎⾏⾐⾑⾒⾓⾔⾕⾖⾗⾘⾙⾚⾛⾜⾝⾞⾟⾠⾡⾢⾣⾤⾥⾦⾧⾨⾩⾪⾫⾬⾭⾮⾯⾰⾱⾲⾳⾴⾵⾶⾷⾸⾹⾺⾻⾼⾽⾾⾿⿀⿁⿂⿃⿄⿅⿆⿇⿈⿉⿊⿋⿌⿍⿎⿏⿐⿑⿒⿓⿔⿕⿖⿗⿘⿙⿚⿛⿜⿝⿞⿟⿠⿡⿢⿣⿤⿥⿦⿧⿨⿩⿪⿫⿬⿭⿮⿯⿰⿱⿲⿳⿴⿵⿶⿷⿸⿹⿺⿻⿼⿽⿾⿿",
  "むめもゃやゅゆょよらりるれろゎわゐゑをんゔゕゖ゗゘゙゚゛゜ゝゞゟ゠ァアィイゥウェエォオカガキギクグケゲコゴサザシジスズセゼソゾタダチヂッツヅテデトドナニヌネノハバパヒビピフブプヘベペホボポマミムメモャヤュユョヨラリルレロヮワヰヱヲンヴヵヶヷヸヹヺ・ーヽヾヿ",
  "ㆀㆁㆂㆃㆄㆅㆆㆇㆈㆉㆊㆋㆌㆍㆎ㆏㆐㆑㆒㆓㆔㆕㆖㆗㆘㆙㆚㆛㆜㆝㆞㆟ㆠㆡㆢㆣㆤㆥㆦㆧㆨㆩㆪㆫㆬㆭㆮㆯㆰㆱㆲㆳㆴㆵㆶㆷㆸㆹㆺㆻㆼㆽㆾㆿ㇀㇁㇂㇃㇄㇅㇆㇇㇈㇉㇊㇋㇌㇍㇎㇏㇐㇑㇒㇓㇔㇕㇖㇗㇘㇙㇚㇛㇜㇝㇞㇟㇠㇡㇢㇣㇤㇥㇦㇧㇨㇩㇪㇫㇬㇭㇮㇯ㇰㇱㇲㇳㇴㇵㇶㇷㇸㇹㇺㇻㇼㇽㇾㇿ",
  "㊀㊁㊂㊃㊄㊅㊆㊇㊈㊉㊊㊋㊌㊍㊎㊏㊐㊑㊒㊓㊔㊕㊖㊗㊘㊙㊚㊛㊜㊝㊞㊟㊠㊡㊢㊣㊤㊥㊦㊧㊨㊩㊪㊫㊬㊭㊮㊯㊰㊱㊲㊳㊴㊵㊶㊷㊸㊹㊺㊻㊼㊽㊾㊿㋀㋁㋂㋃㋄㋅㋆㋇㋈㋉㋊㋋㋌㋍㋎㋏㋐㋑㋒㋓㋔㋕㋖㋗㋘㋙㋚㋛㋜㋝㋞㋟㋠㋡㋢㋣㋤㋥㋦㋧㋨㋩㋪㋫㋬㋭㋮㋯㋰㋱㋲㋳㋴㋵㋶㋷㋸㋹㋺㋻㋼㋽㋾㋿",
  "㎀㎁㎂㎃㎄㎅㎆㎇㎈㎉㎊㎋㎌㎍㎎㎏㎐㎑㎒㎓㎔㎕㎖㎗㎘㎙㎚㎛㎜㎝㎞㎟㎠㎡㎢㎣㎤㎥㎦㎧㎨㎩㎪㎫㎬㎭㎮㎯㎰㎱㎲㎳㎴㎵㎶㎷㎸㎹㎺㎻㎼㎽㎾㎿㏀㏁㏂㏃㏄㏅㏆㏇㏈㏉㏊㏋㏌㏍㏎㏏㏐㏑㏒㏓㏔㏕㏖㏗㏘㏙㏚㏛㏜㏝㏞㏟㏠㏡㏢㏣㏤㏥㏦㏧㏨㏩㏪㏫㏬㏭㏮㏯㏰㏱㏲㏳㏴㏵㏶㏷㏸㏹㏺㏻㏼㏽㏾㏿",
  "㒀㒁㒂㒃㒄㒅㒆㒇㒈㒉㒊㒋㒌㒍㒎㒏㒐㒑㒒㒓㒔㒕㒖㒗㒘㒙㒚㒛㒜㒝㒞㒟㒠㒡㒢㒣㒤㒥㒦㒧㒨㒩㒪㒫㒬㒭㒮㒯㒰㒱㒲㒳㒴㒵㒶㒷㒸㒹㒺㒻㒼㒽㒾㒿㓀㓁㓂㓃㓄㓅㓆㓇㓈㓉㓊㓋㓌㓍㓎㓏㓐㓑㓒㓓㓔㓕㓖㓗㓘㓙㓚㓛㓜㓝㓞㓟㓠㓡㓢㓣㓤㓥㓦㓧㓨㓩㓪㓫㓬㓭㓮㓯㓰㓱㓲㓳㓴㓵㓶㓷㓸㓹㓺㓻㓼㓽㓾㓿",
  "㖀㖁㖂㖃㖄㖅㖆㖇㖈㖉㖊㖋㖌㖍㖎㖏㖐㖑㖒㖓㖔㖕㖖㖗㖘㖙㖚㖛㖜㖝㖞㖟㖠㖡㖢㖣㖤㖥㖦㖧㖨㖩㖪㖫㖬㖭㖮㖯㖰㖱㖲㖳㖴㖵㖶㖷㖸㖹㖺㖻㖼㖽㖾㖿㗀㗁㗂㗃㗄㗅㗆㗇㗈㗉㗊㗋㗌㗍㗎㗏㗐㗑㗒㗓㗔㗕㗖㗗㗘㗙㗚㗛㗜㗝㗞㗟㗠㗡㗢㗣㗤㗥㗦㗧㗨㗩㗪㗫㗬㗭㗮㗯㗰㗱㗲㗳㗴㗵㗶㗷㗸㗹㗺㗻㗼㗽㗾㗿",
  "㚀㚁㚂㚃㚄㚅㚆㚇㚈㚉㚊㚋㚌㚍㚎㚏㚐㚑㚒㚓㚔㚕㚖㚗㚘㚙㚚㚛㚜㚝㚞㚟㚠㚡㚢㚣㚤㚥㚦㚧㚨㚩㚪㚫㚬㚭㚮㚯㚰㚱㚲㚳㚴㚵㚶㚷㚸㚹㚺㚻㚼㚽㚾㚿㛀㛁㛂㛃㛄㛅㛆㛇㛈㛉㛊㛋㛌㛍㛎㛏㛐㛑㛒㛓㛔㛕㛖㛗㛘㛙㛚㛛㛜㛝㛞㛟㛠㛡㛢㛣㛤㛥㛦㛧㛨㛩㛪㛫㛬㛭㛮㛯㛰㛱㛲㛳㛴㛵㛶㛷㛸㛹㛺㛻㛼㛽㛾㛿",
  "㞀㞁㞂㞃㞄㞅㞆㞇㞈㞉㞊㞋㞌㞍㞎㞏㞐㞑㞒㞓㞔㞕㞖㞗㞘㞙㞚㞛㞜㞝㞞㞟㞠㞡㞢㞣㞤㞥㞦㞧㞨㞩㞪㞫㞬㞭㞮㞯㞰㞱㞲㞳㞴㞵㞶㞷㞸㞹㞺㞻㞼㞽㞾㞿㟀㟁㟂㟃㟄㟅㟆㟇㟈㟉㟊㟋㟌㟍㟎㟏㟐㟑㟒㟓㟔㟕㟖㟗㟘㟙㟚㟛㟜㟝㟞㟟㟠㟡㟢㟣㟤㟥㟦㟧㟨㟩㟪㟫㟬㟭㟮㟯㟰㟱㟲㟳㟴㟵㟶㟷㟸㟹㟺㟻㟼㟽㟾㟿",
  "㢀㢁㢂㢃㢄㢅㢆㢇㢈㢉㢊㢋㢌㢍㢎㢏㢐㢑㢒㢓㢔㢕㢖㢗㢘㢙㢚㢛㢜㢝㢞㢟㢠㢡㢢㢣㢤㢥㢦㢧㢨㢩㢪㢫㢬㢭㢮㢯㢰㢱㢲㢳㢴㢵㢶㢷㢸㢹㢺㢻㢼㢽㢾㢿㣀㣁㣂㣃㣄㣅㣆㣇㣈㣉㣊㣋㣌㣍㣎㣏㣐㣑㣒㣓㣔㣕㣖㣗㣘㣙㣚㣛㣜㣝㣞㣟㣠㣡㣢㣣㣤㣥㣦㣧㣨㣩㣪㣫㣬㣭㣮㣯㣰㣱㣲㣳㣴㣵㣶㣷㣸㣹㣺㣻㣼㣽㣾㣿",
  "㦀㦁㦂㦃㦄㦅㦆㦇㦈㦉㦊㦋㦌㦍㦎㦏㦐㦑㦒㦓㦔㦕㦖㦗㦘㦙㦚㦛㦜㦝㦞㦟㦠㦡㦢㦣㦤㦥㦦㦧㦨㦩㦪㦫㦬㦭㦮㦯㦰㦱㦲㦳㦴㦵㦶㦷㦸㦹㦺㦻㦼㦽㦾㦿㧀㧁㧂㧃㧄㧅㧆㧇㧈㧉㧊㧋㧌㧍㧎㧏㧐㧑㧒㧓㧔㧕㧖㧗㧘㧙㧚㧛㧜㧝㧞㧟㧠㧡㧢㧣㧤㧥㧦㧧㧨㧩㧪㧫㧬㧭㧮㧯㧰㧱㧲㧳㧴㧵㧶㧷㧸㧹㧺㧻㧼㧽㧾㧿",
  "㪀㪁㪂㪃㪄㪅㪆㪇㪈㪉㪊㪋㪌㪍㪎㪏㪐㪑㪒㪓㪔㪕㪖㪗㪘㪙㪚㪛㪜㪝㪞㪟㪠㪡㪢㪣㪤㪥㪦㪧㪨㪩㪪㪫㪬㪭㪮㪯㪰㪱㪲㪳㪴㪵㪶㪷㪸㪹㪺㪻㪼㪽㪾㪿㫀㫁㫂㫃㫄㫅㫆㫇㫈㫉㫊㫋㫌㫍㫎㫏㫐㫑㫒㫓㫔㫕㫖㫗㫘㫙㫚㫛㫜㫝㫞㫟㫠㫡㫢㫣㫤㫥㫦㫧㫨㫩㫪㫫㫬㫭㫮㫯㫰㫱㫲㫳㫴㫵㫶㫷㫸㫹㫺㫻㫼㫽㫾㫿",
  "㮀㮁㮂㮃㮄㮅㮆㮇㮈㮉㮊㮋㮌㮍㮎㮏㮐㮑㮒㮓㮔㮕㮖㮗㮘㮙㮚㮛㮜㮝㮞㮟㮠㮡㮢㮣㮤㮥㮦㮧㮨㮩㮪㮫㮬㮭㮮㮯㮰㮱㮲㮳㮴㮵㮶㮷㮸㮹㮺㮻㮼㮽㮾㮿㯀㯁㯂㯃㯄㯅㯆㯇㯈㯉㯊㯋㯌㯍㯎㯏㯐㯑㯒㯓㯔㯕㯖㯗㯘㯙㯚㯛㯜㯝㯞㯟㯠㯡㯢㯣㯤㯥㯦㯧㯨㯩㯪㯫㯬㯭㯮㯯㯰㯱㯲㯳㯴㯵㯶㯷㯸㯹㯺㯻㯼㯽㯾㯿",
  "㲀㲁㲂㲃㲄㲅㲆㲇㲈㲉㲊㲋㲌㲍㲎㲏㲐㲑㲒㲓㲔㲕㲖㲗㲘㲙㲚㲛㲜㲝㲞㲟㲠㲡㲢㲣㲤㲥㲦㲧㲨㲩㲪㲫㲬㲭㲮㲯㲰㲱㲲㲳㲴㲵㲶㲷㲸㲹㲺㲻㲼㲽㲾㲿㳀㳁㳂㳃㳄㳅㳆㳇㳈㳉㳊㳋㳌㳍㳎㳏㳐㳑㳒㳓㳔㳕㳖㳗㳘㳙㳚㳛㳜㳝㳞㳟㳠㳡㳢㳣㳤㳥㳦㳧㳨㳩㳪㳫㳬㳭㳮㳯㳰㳱㳲㳳㳴㳵㳶㳷㳸㳹㳺㳻㳼㳽㳾㳿",
  "㶀㶁㶂㶃㶄㶅㶆㶇㶈㶉㶊㶋㶌㶍㶎㶏㶐㶑㶒㶓㶔㶕㶖㶗㶘㶙㶚㶛㶜㶝㶞㶟㶠㶡㶢㶣㶤㶥㶦㶧㶨㶩㶪㶫㶬㶭㶮㶯㶰㶱㶲㶳㶴㶵㶶㶷㶸㶹㶺㶻㶼㶽㶾㶿㷀㷁㷂㷃㷄㷅㷆㷇㷈㷉㷊㷋㷌㷍㷎㷏㷐㷑㷒㷓㷔㷕㷖㷗㷘㷙㷚㷛㷜㷝㷞㷟㷠㷡㷢㷣㷤㷥㷦㷧㷨㷩㷪㷫㷬㷭㷮㷯㷰㷱㷲㷳㷴㷵㷶㷷㷸㷹㷺㷻㷼㷽㷾㷿",
  "㺀㺁㺂㺃㺄㺅㺆㺇㺈㺉㺊㺋㺌㺍㺎㺏㺐㺑㺒㺓㺔㺕㺖㺗㺘㺙㺚㺛㺜㺝㺞㺟㺠㺡㺢㺣㺤㺥㺦㺧㺨㺩㺪㺫㺬㺭㺮㺯㺰㺱㺲㺳㺴㺵㺶㺷㺸㺹㺺㺻㺼㺽㺾㺿㻀㻁㻂㻃㻄㻅㻆㻇㻈㻉㻊㻋㻌㻍㻎㻏㻐㻑㻒㻓㻔㻕㻖㻗㻘㻙㻚㻛㻜㻝㻞㻟㻠㻡㻢㻣㻤㻥㻦㻧㻨㻩㻪㻫㻬㻭㻮㻯㻰㻱㻲㻳㻴㻵㻶㻷㻸㻹㻺㻻㻼㻽㻾㻿",
  "㾀㾁㾂㾃㾄㾅㾆㾇㾈㾉㾊㾋㾌㾍㾎㾏㾐㾑㾒㾓㾔㾕㾖㾗㾘㾙㾚㾛㾜㾝㾞㾟㾠㾡㾢㾣㾤㾥㾦㾧㾨㾩㾪㾫㾬㾭㾮㾯㾰㾱㾲㾳㾴㾵㾶㾷㾸㾹㾺㾻㾼㾽㾾㾿㿀㿁㿂㿃㿄㿅㿆㿇㿈㿉㿊㿋㿌㿍㿎㿏㿐㿑㿒㿓㿔㿕㿖㿗㿘㿙㿚㿛㿜㿝㿞㿟㿠㿡㿢㿣㿤㿥㿦㿧㿨㿩㿪㿫㿬㿭㿮㿯㿰㿱㿲㿳㿴㿵㿶㿷㿸㿹㿺㿻㿼㿽㿾㿿",
  "䂀䂁䂂䂃䂄䂅䂆䂇䂈䂉䂊䂋䂌䂍䂎䂏䂐䂑䂒䂓䂔䂕䂖䂗䂘䂙䂚䂛䂜䂝䂞䂟䂠䂡䂢䂣䂤䂥䂦䂧䂨䂩䂪䂫䂬䂭䂮䂯䂰䂱䂲䂳䂴䂵䂶䂷䂸䂹䂺䂻䂼䂽䂾䂿䃀䃁䃂䃃䃄䃅䃆䃇䃈䃉䃊䃋䃌䃍䃎䃏䃐䃑䃒䃓䃔䃕䃖䃗䃘䃙䃚䃛䃜䃝䃞䃟䃠䃡䃢䃣䃤䃥䃦䃧䃨䃩䃪䃫䃬䃭䃮䃯䃰䃱䃲䃳䃴䃵䃶䃷䃸䃹䃺䃻䃼䃽䃾䃿",
  "䆀䆁䆂䆃䆄䆅䆆䆇䆈䆉䆊䆋䆌䆍䆎䆏䆐䆑䆒䆓䆔䆕䆖䆗䆘䆙䆚䆛䆜䆝䆞䆟䆠䆡䆢䆣䆤䆥䆦䆧䆨䆩䆪䆫䆬䆭䆮䆯䆰䆱䆲䆳䆴䆵䆶䆷䆸䆹䆺䆻䆼䆽䆾䆿䇀䇁䇂䇃䇄䇅䇆䇇䇈䇉䇊䇋䇌䇍䇎䇏䇐䇑䇒䇓䇔䇕䇖䇗䇘䇙䇚䇛䇜䇝䇞䇟䇠䇡䇢䇣䇤䇥䇦䇧䇨䇩䇪䇫䇬䇭䇮䇯䇰䇱䇲䇳䇴䇵䇶䇷䇸䇹䇺䇻䇼䇽䇾䇿",
  "䊀䊁䊂䊃䊄䊅䊆䊇䊈䊉䊊䊋䊌䊍䊎䊏䊐䊑䊒䊓䊔䊕䊖䊗䊘䊙䊚䊛䊜䊝䊞䊟䊠䊡䊢䊣䊤䊥䊦䊧䊨䊩䊪䊫䊬䊭䊮䊯䊰䊱䊲䊳䊴䊵䊶䊷䊸䊹䊺䊻䊼䊽䊾䊿䋀䋁䋂䋃䋄䋅䋆䋇䋈䋉䋊䋋䋌䋍䋎䋏䋐䋑䋒䋓䋔䋕䋖䋗䋘䋙䋚䋛䋜䋝䋞䋟䋠䋡䋢䋣䋤䋥䋦䋧䋨䋩䋪䋫䋬䋭䋮䋯䋰䋱䋲䋳䋴䋵䋶䋷䋸䋹䋺䋻䋼䋽䋾䋿",
  "䎀䎁䎂䎃䎄䎅䎆䎇䎈䎉䎊䎋䎌䎍䎎䎏䎐䎑䎒䎓䎔䎕䎖䎗䎘䎙䎚䎛䎜䎝䎞䎟䎠䎡䎢䎣䎤䎥䎦䎧䎨䎩䎪䎫䎬䎭䎮䎯䎰䎱䎲䎳䎴䎵䎶䎷䎸䎹䎺䎻䎼䎽䎾䎿䏀䏁䏂䏃䏄䏅䏆䏇䏈䏉䏊䏋䏌䏍䏎䏏䏐䏑䏒䏓䏔䏕䏖䏗䏘䏙䏚䏛䏜䏝䏞䏟䏠䏡䏢䏣䏤䏥䏦䏧䏨䏩䏪䏫䏬䏭䏮䏯䏰䏱䏲䏳䏴䏵䏶䏷䏸䏹䏺䏻䏼䏽䏾䏿",
  "䒀䒁䒂䒃䒄䒅䒆䒇䒈䒉䒊䒋䒌䒍䒎䒏䒐䒑䒒䒓䒔䒕䒖䒗䒘䒙䒚䒛䒜䒝䒞䒟䒠䒡䒢䒣䒤䒥䒦䒧䒨䒩䒪䒫䒬䒭䒮䒯䒰䒱䒲䒳䒴䒵䒶䒷䒸䒹䒺䒻䒼䒽䒾䒿䓀䓁䓂䓃䓄䓅䓆䓇䓈䓉䓊䓋䓌䓍䓎䓏䓐䓑䓒䓓䓔䓕䓖䓗䓘䓙䓚䓛䓜䓝䓞䓟䓠䓡䓢䓣䓤䓥䓦䓧䓨䓩䓪䓫䓬䓭䓮䓯䓰䓱䓲䓳䓴䓵䓶䓷䓸䓹䓺䓻䓼䓽䓾䓿",
  "䖀䖁䖂䖃䖄䖅䖆䖇䖈䖉䖊䖋䖌䖍䖎䖏䖐䖑䖒䖓䖔䖕䖖䖗䖘䖙䖚䖛䖜䖝䖞䖟䖠䖡䖢䖣䖤䖥䖦䖧䖨䖩䖪䖫䖬䖭䖮䖯䖰䖱䖲䖳䖴䖵䖶䖷䖸䖹䖺䖻䖼䖽䖾䖿䗀䗁䗂䗃䗄䗅䗆䗇䗈䗉䗊䗋䗌䗍䗎䗏䗐䗑䗒䗓䗔䗕䗖䗗䗘䗙䗚䗛䗜䗝䗞䗟䗠䗡䗢䗣䗤䗥䗦䗧䗨䗩䗪䗫䗬䗭䗮䗯䗰䗱䗲䗳䗴䗵䗶䗷䗸䗹䗺䗻䗼䗽䗾䗿",
  "䚀䚁䚂䚃䚄䚅䚆䚇䚈䚉䚊䚋䚌䚍䚎䚏䚐䚑䚒䚓䚔䚕䚖䚗䚘䚙䚚䚛䚜䚝䚞䚟䚠䚡䚢䚣䚤䚥䚦䚧䚨䚩䚪䚫䚬䚭䚮䚯䚰䚱䚲䚳䚴䚵䚶䚷䚸䚹䚺䚻䚼䚽䚾䚿䛀䛁䛂䛃䛄䛅䛆䛇䛈䛉䛊䛋䛌䛍䛎䛏䛐䛑䛒䛓䛔䛕䛖䛗䛘䛙䛚䛛䛜䛝䛞䛟䛠䛡䛢䛣䛤䛥䛦䛧䛨䛩䛪䛫䛬䛭䛮䛯䛰䛱䛲䛳䛴䛵䛶䛷䛸䛹䛺䛻䛼䛽䛾䛿",
  "䞀䞁䞂䞃䞄䞅䞆䞇䞈䞉䞊䞋䞌䞍䞎䞏䞐䞑䞒䞓䞔䞕䞖䞗䞘䞙䞚䞛䞜䞝䞞䞟䞠䞡䞢䞣䞤䞥䞦䞧䞨䞩䞪䞫䞬䞭䞮䞯䞰䞱䞲䞳䞴䞵䞶䞷䞸䞹䞺䞻䞼䞽䞾䞿䟀䟁䟂䟃䟄䟅䟆䟇䟈䟉䟊䟋䟌䟍䟎䟏䟐䟑䟒䟓䟔䟕䟖䟗䟘䟙䟚䟛䟜䟝䟞䟟䟠䟡䟢䟣䟤䟥䟦䟧䟨䟩䟪䟫䟬䟭䟮䟯䟰䟱䟲䟳䟴䟵䟶䟷䟸䟹䟺䟻䟼䟽䟾䟿",
  "䢀䢁䢂䢃䢄䢅䢆䢇䢈䢉䢊䢋䢌䢍䢎䢏䢐䢑䢒䢓䢔䢕䢖䢗䢘䢙䢚䢛䢜䢝䢞䢟䢠䢡䢢䢣䢤䢥䢦䢧䢨䢩䢪䢫䢬䢭䢮䢯䢰䢱䢲䢳䢴䢵䢶䢷䢸䢹䢺䢻䢼䢽䢾䢿䣀䣁䣂䣃䣄䣅䣆䣇䣈䣉䣊䣋䣌䣍䣎䣏䣐䣑䣒䣓䣔䣕䣖䣗䣘䣙䣚䣛䣜䣝䣞䣟䣠䣡䣢䣣䣤䣥䣦䣧䣨䣩䣪䣫䣬䣭䣮䣯䣰䣱䣲䣳䣴䣵䣶䣷䣸䣹䣺䣻䣼䣽䣾䣿",
  "䦀䦁䦂䦃䦄䦅䦆䦇䦈䦉䦊䦋䦌䦍䦎䦏䦐䦑䦒䦓䦔䦕䦖䦗䦘䦙䦚䦛䦜䦝䦞䦟䦠䦡䦢䦣䦤䦥䦦䦧䦨䦩䦪䦫䦬䦭䦮䦯䦰䦱䦲䦳䦴䦵䦶䦷䦸䦹䦺䦻䦼䦽䦾䦿䧀䧁䧂䧃䧄䧅䧆䧇䧈䧉䧊䧋䧌䧍䧎䧏䧐䧑䧒䧓䧔䧕䧖䧗䧘䧙䧚䧛䧜䧝䧞䧟䧠䧡䧢䧣䧤䧥䧦䧧䧨䧩䧪䧫䧬䧭䧮䧯䧰䧱䧲䧳䧴䧵䧶䧷䧸䧹䧺䧻䧼䧽䧾䧿",
  "䪀䪁䪂䪃䪄䪅䪆䪇䪈䪉䪊䪋䪌䪍䪎䪏䪐䪑䪒䪓䪔䪕䪖䪗䪘䪙䪚䪛䪜䪝䪞䪟䪠䪡䪢䪣䪤䪥䪦䪧䪨䪩䪪䪫䪬䪭䪮䪯䪰䪱䪲䪳䪴䪵䪶䪷䪸䪹䪺䪻䪼䪽䪾䪿䫀䫁䫂䫃䫄䫅䫆䫇䫈䫉䫊䫋䫌䫍䫎䫏䫐䫑䫒䫓䫔䫕䫖䫗䫘䫙䫚䫛䫜䫝䫞䫟䫠䫡䫢䫣䫤䫥䫦䫧䫨䫩䫪䫫䫬䫭䫮䫯䫰䫱䫲䫳䫴䫵䫶䫷䫸䫹䫺䫻䫼䫽䫾䫿",
  "䮀䮁䮂䮃䮄䮅䮆䮇䮈䮉䮊䮋䮌䮍䮎䮏䮐䮑䮒䮓䮔䮕䮖䮗䮘䮙䮚䮛䮜䮝䮞䮟䮠䮡䮢䮣䮤䮥䮦䮧䮨䮩䮪䮫䮬䮭䮮䮯䮰䮱䮲䮳䮴䮵䮶䮷䮸䮹䮺䮻䮼䮽䮾䮿䯀䯁䯂䯃䯄䯅䯆䯇䯈䯉䯊䯋䯌䯍䯎䯏䯐䯑䯒䯓䯔䯕䯖䯗䯘䯙䯚䯛䯜䯝䯞䯟䯠䯡䯢䯣䯤䯥䯦䯧䯨䯩䯪䯫䯬䯭䯮䯯䯰䯱䯲䯳䯴䯵䯶䯷䯸䯹䯺䯻䯼䯽䯾䯿",
  "䲀䲁䲂䲃䲄䲅䲆䲇䲈䲉䲊䲋䲌䲍䲎䲏䲐䲑䲒䲓䲔䲕䲖䲗䲘䲙䲚䲛䲜䲝䲞䲟䲠䲡䲢䲣䲤䲥䲦䲧䲨䲩䲪䲫䲬䲭䲮䲯䲰䲱䲲䲳䲴䲵䲶䲷䲸䲹䲺䲻䲼䲽䲾䲿䳀䳁䳂䳃䳄䳅䳆䳇䳈䳉䳊䳋䳌䳍䳎䳏䳐䳑䳒䳓䳔䳕䳖䳗䳘䳙䳚䳛䳜䳝䳞䳟䳠䳡䳢䳣䳤䳥䳦䳧䳨䳩䳪䳫䳬䳭䳮䳯䳰䳱䳲䳳䳴䳵䳶䳷䳸䳹䳺䳻䳼䳽䳾䳿",
  "䶀䶁䶂䶃䶄䶅䶆䶇䶈䶉䶊䶋䶌䶍䶎䶏䶐䶑䶒䶓䶔䶕䶖䶗䶘䶙䶚䶛䶜䶝䶞䶟䶠䶡䶢䶣䶤䶥䶦䶧䶨䶩䶪䶫䶬䶭䶮䶯䶰䶱䶲䶳䶴䶵䶶䶷䶸䶹䶺䶻䶼䶽䶾䶿䷀䷁䷂䷃䷄䷅䷆䷇䷈䷉䷊䷋䷌䷍䷎䷏䷐䷑䷒䷓䷔䷕䷖䷗䷘䷙䷚䷛䷜䷝䷞䷟䷠䷡䷢䷣䷤䷥䷦䷧䷨䷩䷪䷫䷬䷭䷮䷯䷰䷱䷲䷳䷴䷵䷶䷷䷸䷹䷺䷻䷼䷽䷾䷿",
  "亀亁亂亃亄亅了亇予争亊事二亍于亏亐云互亓五井亖亗亘亙亚些亜亝亞亟亠亡亢亣交亥亦产亨亩亪享京亭亮亯亰亱亲亳亴亵亶亷亸亹人亻亼亽亾亿什仁仂仃仄仅仆仇仈仉今介仌仍从仏仐仑仒仓仔仕他仗付仙仚仛仜仝仞仟仠仡仢代令以仦仧仨仩仪仫们仭仮仯仰仱仲仳仴仵件价仸仹仺任仼份仾仿",
  "侀侁侂侃侄侅來侇侈侉侊例侌侍侎侏侐侑侒侓侔侕侖侗侘侙侚供侜依侞侟侠価侢侣侤侥侦侧侨侩侪侫侬侭侮侯侰侱侲侳侴侵侶侷侸侹侺侻侼侽侾便俀俁係促俄俅俆俇俈俉俊俋俌俍俎俏俐俑俒俓俔俕俖俗俘俙俚俛俜保俞俟俠信俢俣俤俥俦俧俨俩俪俫俬俭修俯俰俱俲俳俴俵俶俷俸俹俺俻俼俽俾俿",
  "傀傁傂傃傄傅傆傇傈傉傊傋傌傍傎傏傐傑傒傓傔傕傖傗傘備傚傛傜傝傞傟傠傡傢傣傤傥傦傧储傩傪傫催傭傮傯傰傱傲傳傴債傶傷傸傹傺傻傼傽傾傿僀僁僂僃僄僅僆僇僈僉僊僋僌働僎像僐僑僒僓僔僕僖僗僘僙僚僛僜僝僞僟僠僡僢僣僤僥僦僧僨僩僪僫僬僭僮僯僰僱僲僳僴僵僶僷僸價僺僻僼僽僾僿",
  "冀冁冂冃冄内円冇冈冉冊冋册再冎冏冐冑冒冓冔冕冖冗冘写冚军农冝冞冟冠冡冢冣冤冥冦冧冨冩冪冫冬冭冮冯冰冱冲决冴况冶冷冸冹冺冻冼冽冾冿净凁凂凃凄凅准凇凈凉凊凋凌凍凎减凐凑凒凓凔凕凖凗凘凙凚凛凜凝凞凟几凡凢凣凤凥処凧凨凩凪凫凬凭凮凯凰凱凲凳凴凵凶凷凸凹出击凼函凾凿",
  "劀劁劂劃劄劅劆劇劈劉劊劋劌劍劎劏劐劑劒劓劔劕劖劗劘劙劚力劜劝办功加务劢劣劤劥劦劧动助努劫劬劭劮劯劰励劲劳労劵劶劷劸効劺劻劼劽劾势勀勁勂勃勄勅勆勇勈勉勊勋勌勍勎勏勐勑勒勓勔動勖勗勘務勚勛勜勝勞募勠勡勢勣勤勥勦勧勨勩勪勫勬勭勮勯勰勱勲勳勴勵勶勷勸勹勺勻勼勽勾勿",
  "厀厁厂厃厄厅历厇厈厉厊压厌厍厎厏厐厑厒厓厔厕厖厗厘厙厚厛厜厝厞原厠厡厢厣厤厥厦厧厨厩厪厫厬厭厮厯厰厱厲厳厴厵厶厷厸厹厺去厼厽厾县叀叁参參叄叅叆叇又叉及友双反収叏叐发叒叓叔叕取受变叙叚叛叜叝叞叟叠叡叢口古句另叧叨叩只叫召叭叮可台叱史右叴叵叶号司叹叺叻叼叽叾叿",
  "咀咁咂咃咄咅咆咇咈咉咊咋和咍咎咏咐咑咒咓咔咕咖咗咘咙咚咛咜咝咞咟咠咡咢咣咤咥咦咧咨咩咪咫咬咭咮咯咰咱咲咳咴咵咶咷咸咹咺咻咼咽咾咿哀品哂哃哄哅哆哇哈哉哊哋哌响哎哏哐哑哒哓哔哕哖哗哘哙哚哛哜哝哞哟哠員哢哣哤哥哦哧哨哩哪哫哬哭哮哯哰哱哲哳哴哵哶哷哸哹哺哻哼哽哾哿",
  "喀喁喂喃善喅喆喇喈喉喊喋喌喍喎喏喐喑喒喓喔喕喖喗喘喙喚喛喜喝喞喟喠喡喢喣喤喥喦喧喨喩喪喫喬喭單喯喰喱喲喳喴喵営喷喸喹喺喻喼喽喾喿嗀嗁嗂嗃嗄嗅嗆嗇嗈嗉嗊嗋嗌嗍嗎嗏嗐嗑嗒嗓嗔嗕嗖嗗嗘嗙嗚嗛嗜嗝嗞嗟嗠嗡嗢嗣嗤嗥嗦嗧嗨嗩嗪嗫嗬嗭嗮嗯嗰嗱嗲嗳嗴嗵嗶嗷嗸嗹嗺嗻嗼嗽嗾嗿",
  "嚀嚁嚂嚃嚄嚅嚆嚇嚈嚉嚊嚋嚌嚍嚎嚏嚐嚑嚒嚓嚔嚕嚖嚗嚘嚙嚚嚛嚜嚝嚞嚟嚠嚡嚢嚣嚤嚥嚦嚧嚨嚩嚪嚫嚬嚭嚮嚯嚰嚱嚲嚳嚴嚵嚶嚷嚸嚹嚺嚻嚼嚽嚾嚿囀囁囂囃囄囅囆囇囈囉囊囋囌囍囎囏囐囑囒囓囔囕囖囗囘囙囚四囜囝回囟因囡团団囤囥囦囧囨囩囪囫囬园囮囯困囱囲図围囵囶囷囸囹固囻囼国图囿",
  "垀垁垂垃垄垅垆垇垈垉垊型垌垍垎垏垐垑垒垓垔垕垖垗垘垙垚垛垜垝垞垟垠垡垢垣垤垥垦垧垨垩垪垫垬垭垮垯垰垱垲垳垴垵垶垷垸垹垺垻垼垽垾垿埀埁埂埃埄埅埆埇埈埉埊埋埌埍城埏埐埑埒埓埔埕埖埗埘埙埚埛埜埝埞域埠埡埢埣埤埥埦埧埨埩埪埫埬埭埮埯埰埱埲埳埴埵埶執埸培基埻埼埽埾埿",
  "墀墁墂境墄墅墆墇墈墉墊墋墌墍墎墏墐墑墒墓墔墕墖増墘墙墚墛墜墝增墟墠墡墢墣墤墥墦墧墨墩墪墫墬墭墮墯墰墱墲墳墴墵墶墷墸墹墺墻墼墽墾墿壀壁壂壃壄壅壆壇壈壉壊壋壌壍壎壏壐壑壒壓壔壕壖壗壘壙壚壛壜壝壞壟壠壡壢壣壤壥壦壧壨壩壪士壬壭壮壯声壱売壳壴壵壶壷壸壹壺壻壼壽壾壿",
  "妀妁如妃妄妅妆妇妈妉妊妋妌妍妎妏妐妑妒妓妔妕妖妗妘妙妚妛妜妝妞妟妠妡妢妣妤妥妦妧妨妩妪妫妬妭妮妯妰妱妲妳妴妵妶妷妸妹妺妻妼妽妾妿姀姁姂姃姄姅姆姇姈姉姊始姌姍姎姏姐姑姒姓委姕姖姗姘姙姚姛姜姝姞姟姠姡姢姣姤姥姦姧姨姩姪姫姬姭姮姯姰姱姲姳姴姵姶姷姸姹姺姻姼姽姾姿",
  "媀媁媂媃媄媅媆媇媈媉媊媋媌媍媎媏媐媑媒媓媔媕媖媗媘媙媚媛媜媝媞媟媠媡媢媣媤媥媦媧媨媩媪媫媬媭媮媯媰媱媲媳媴媵媶媷媸媹媺媻媼媽媾媿嫀嫁嫂嫃嫄嫅嫆嫇嫈嫉嫊嫋嫌嫍嫎嫏嫐嫑嫒嫓嫔嫕嫖嫗嫘嫙嫚嫛嫜嫝嫞嫟嫠嫡嫢嫣嫤嫥嫦嫧嫨嫩嫪嫫嫬嫭嫮嫯嫰嫱嫲嫳嫴嫵嫶嫷嫸嫹嫺嫻嫼嫽嫾嫿",
  "宀宁宂它宄宅宆宇守安宊宋完宍宎宏宐宑宒宓宔宕宖宗官宙定宛宜宝实実宠审客宣室宥宦宧宨宩宪宫宬宭宮宯宰宱宲害宴宵家宷宸容宺宻宼宽宾宿寀寁寂寃寄寅密寇寈寉寊寋富寍寎寏寐寑寒寓寔寕寖寗寘寙寚寛寜寝寞察寠寡寢寣寤寥實寧寨審寪寫寬寭寮寯寰寱寲寳寴寵寶寷寸对寺寻导寽対寿",
  "岀岁岂岃岄岅岆岇岈岉岊岋岌岍岎岏岐岑岒岓岔岕岖岗岘岙岚岛岜岝岞岟岠岡岢岣岤岥岦岧岨岩岪岫岬岭岮岯岰岱岲岳岴岵岶岷岸岹岺岻岼岽岾岿峀峁峂峃峄峅峆峇峈峉峊峋峌峍峎峏峐峑峒峓峔峕峖峗峘峙峚峛峜峝峞峟峠峡峢峣峤峥峦峧峨峩峪峫峬峭峮峯峰峱峲峳峴峵島峷峸峹峺峻峼峽峾峿",
  "嶀嶁嶂嶃嶄嶅嶆嶇嶈嶉嶊嶋嶌嶍嶎嶏嶐嶑嶒嶓嶔嶕嶖嶗嶘嶙嶚嶛嶜嶝嶞嶟嶠嶡嶢嶣嶤嶥嶦嶧嶨嶩嶪嶫嶬嶭嶮嶯嶰嶱嶲嶳嶴嶵嶶嶷嶸嶹嶺嶻嶼嶽嶾嶿巀巁巂巃巄巅巆巇巈巉巊巋巌巍巎巏巐巑巒巓巔巕巖巗巘巙巚巛巜川州巟巠巡巢巣巤工左巧巨巩巪巫巬巭差巯巰己已巳巴巵巶巷巸巹巺巻巼巽巾巿",
  "庀庁庂広庄庅庆庇庈庉床庋庌庍庎序庐庑庒库应底庖店庘庙庚庛府庝庞废庠庡庢庣庤庥度座庨庩庪庫庬庭庮庯庰庱庲庳庴庵庶康庸庹庺庻庼庽庾庿廀廁廂廃廄廅廆廇廈廉廊廋廌廍廎廏廐廑廒廓廔廕廖廗廘廙廚廛廜廝廞廟廠廡廢廣廤廥廦廧廨廩廪廫廬廭廮廯廰廱廲廳廴廵延廷廸廹建廻廼廽廾廿",
  "往征徂徃径待徆徇很徉徊律後徍徎徏徐徑徒従徔徕徖得徘徙徚徛徜徝從徟徠御徢徣徤徥徦徧徨復循徫徬徭微徯徰徱徲徳徴徵徶德徸徹徺徻徼徽徾徿忀忁忂心忄必忆忇忈忉忊忋忌忍忎忏忐忑忒忓忔忕忖志忘忙忚忛応忝忞忟忠忡忢忣忤忥忦忧忨忩忪快忬忭忮忯忰忱忲忳忴念忶忷忸忹忺忻忼忽忾忿",
  "悀悁悂悃悄悅悆悇悈悉悊悋悌悍悎悏悐悑悒悓悔悕悖悗悘悙悚悛悜悝悞悟悠悡悢患悤悥悦悧您悩悪悫悬悭悮悯悰悱悲悳悴悵悶悷悸悹悺悻悼悽悾悿惀惁惂惃惄情惆惇惈惉惊惋惌惍惎惏惐惑惒惓惔惕惖惗惘惙惚惛惜惝惞惟惠惡惢惣惤惥惦惧惨惩惪惫惬惭惮惯惰惱惲想惴惵惶惷惸惹惺惻惼惽惾惿",
  "憀憁憂憃憄憅憆憇憈憉憊憋憌憍憎憏憐憑憒憓憔憕憖憗憘憙憚憛憜憝憞憟憠憡憢憣憤憥憦憧憨憩憪憫憬憭憮憯憰憱憲憳憴憵憶憷憸憹憺憻憼憽憾憿懀懁懂懃懄懅懆懇懈應懊懋懌懍懎懏懐懑懒懓懔懕懖懗懘懙懚懛懜懝懞懟懠懡懢懣懤懥懦懧懨懩懪懫懬懭懮懯懰懱懲懳懴懵懶懷懸懹懺懻懼懽懾懿",
  "技抁抂抃抄抅抆抇抈抉把抋抌抍抎抏抐抑抒抓抔投抖抗折抙抚抛抜抝択抟抠抡抢抣护报抦抧抨抩抪披抬抭抮抯抰抱抲抳抴抵抶抷抸抹抺抻押抽抾抿拀拁拂拃拄担拆拇拈拉拊拋拌拍拎拏拐拑拒拓拔拕拖拗拘拙拚招拜拝拞拟拠拡拢拣拤拥拦拧拨择拪拫括拭拮拯拰拱拲拳拴拵拶拷拸拹拺拻拼拽拾拿",
  "掀掁掂掃掄掅掆掇授掉掊掋掌掍掎掏掐掑排掓掔掕掖掗掘掙掚掛掜掝掞掟掠採探掣掤接掦控推掩措掫掬掭掮掯掰掱掲掳掴掵掶掷掸掹掺掻掼掽掾掿揀揁揂揃揄揅揆揇揈揉揊揋揌揍揎描提揑插揓揔揕揖揗揘揙揚換揜揝揞揟揠握揢揣揤揥揦揧揨揩揪揫揬揭揮揯揰揱揲揳援揵揶揷揸揹揺揻揼揽揾揿",
  "撀撁撂撃撄撅撆撇撈撉撊撋撌撍撎撏撐撑撒撓撔撕撖撗撘撙撚撛撜撝撞撟撠撡撢撣撤撥撦撧撨撩撪撫撬播撮撯撰撱撲撳撴撵撶撷撸撹撺撻撼撽撾撿擀擁擂擃擄擅擆擇擈擉擊擋擌操擎擏擐擑擒擓擔擕擖擗擘擙據擛擜擝擞擟擠擡擢擣擤擥擦擧擨擩擪擫擬擭擮擯擰擱擲擳擴擵擶擷擸擹擺擻擼擽擾擿",
  "斀斁斂斃斄斅斆文斈斉斊斋斌斍斎斏斐斑斒斓斔斕斖斗斘料斚斛斜斝斞斟斠斡斢斣斤斥斦斧斨斩斪斫斬断斮斯新斱斲斳斴斵斶斷斸方斺斻於施斾斿旀旁旂旃旄旅旆旇旈旉旊旋旌旍旎族旐旑旒旓旔旕旖旗旘旙旚旛旜旝旞旟无旡既旣旤日旦旧旨早旪旫旬旭旮旯旰旱旲旳旴旵时旷旸旹旺旻旼旽旾旿",
  "暀暁暂暃暄暅暆暇暈暉暊暋暌暍暎暏暐暑暒暓暔暕暖暗暘暙暚暛暜暝暞暟暠暡暢暣暤暥暦暧暨暩暪暫暬暭暮暯暰暱暲暳暴暵暶暷暸暹暺暻暼暽暾暿曀曁曂曃曄曅曆曇曈曉曊曋曌曍曎曏曐曑曒曓曔曕曖曗曘曙曚曛曜曝曞曟曠曡曢曣曤曥曦曧曨曩曪曫曬曭曮曯曰曱曲曳更曵曶曷書曹曺曻曼曽曾替",
  "枀极枂枃构枅枆枇枈枉枊枋枌枍枎枏析枑枒枓枔枕枖林枘枙枚枛果枝枞枟枠枡枢枣枤枥枦枧枨枩枪枫枬枭枮枯枰枱枲枳枴枵架枷枸枹枺枻枼枽枾枿柀柁柂柃柄柅柆柇柈柉柊柋柌柍柎柏某柑柒染柔柕柖柗柘柙柚柛柜柝柞柟柠柡柢柣柤查柦柧柨柩柪柫柬柭柮柯柰柱柲柳柴柵柶柷柸柹柺査柼柽柾柿",
  "梀梁梂梃梄梅梆梇梈梉梊梋梌梍梎梏梐梑梒梓梔梕梖梗梘梙梚梛梜條梞梟梠梡梢梣梤梥梦梧梨梩梪梫梬梭梮梯械梱梲梳梴梵梶梷梸梹梺梻梼梽梾梿检棁棂棃棄棅棆棇棈棉棊棋棌棍棎棏棐棑棒棓棔棕棖棗棘棙棚棛棜棝棞棟棠棡棢棣棤棥棦棧棨棩棪棫棬棭森棯棰棱棲棳棴棵棶棷棸棹棺棻棼棽棾棿",
  "榀榁概榃榄榅榆榇榈榉榊榋榌榍榎榏榐榑榒榓榔榕榖榗榘榙榚榛榜榝榞榟榠榡榢榣榤榥榦榧榨榩榪榫榬榭榮榯榰榱榲榳榴榵榶榷榸榹榺榻榼榽榾榿槀槁槂槃槄槅槆槇槈槉槊構槌槍槎槏槐槑槒槓槔槕槖槗様槙槚槛槜槝槞槟槠槡槢槣槤槥槦槧槨槩槪槫槬槭槮槯槰槱槲槳槴槵槶槷槸槹槺槻槼槽槾槿",
  "檀檁檂檃檄檅檆檇檈檉檊檋檌檍檎檏檐檑檒檓檔檕檖檗檘檙檚檛檜檝檞檟檠檡檢檣檤檥檦檧檨檩檪檫檬檭檮檯檰檱檲檳檴檵檶檷檸檹檺檻檼檽檾檿櫀櫁櫂櫃櫄櫅櫆櫇櫈櫉櫊櫋櫌櫍櫎櫏櫐櫑櫒櫓櫔櫕櫖櫗櫘櫙櫚櫛櫜櫝櫞櫟櫠櫡櫢櫣櫤櫥櫦櫧櫨櫩櫪櫫櫬櫭櫮櫯櫰櫱櫲櫳櫴櫵櫶櫷櫸櫹櫺櫻櫼櫽櫾櫿",
  "殀殁殂殃殄殅殆殇殈殉殊残殌殍殎殏殐殑殒殓殔殕殖殗殘殙殚殛殜殝殞殟殠殡殢殣殤殥殦殧殨殩殪殫殬殭殮殯殰殱殲殳殴段殶殷殸殹殺殻殼殽殾殿毀毁毂毃毄毅毆毇毈毉毊毋毌母毎每毐毑毒毓比毕毖毗毘毙毚毛毜毝毞毟毠毡毢毣毤毥毦毧毨毩毪毫毬毭毮毯毰毱毲毳毴毵毶毷毸毹毺毻毼毽毾毿",
  "沀沁沂沃沄沅沆沇沈沉沊沋沌沍沎沏沐沑沒沓沔沕沖沗沘沙沚沛沜沝沞沟沠没沢沣沤沥沦沧沨沩沪沫沬沭沮沯沰沱沲河沴沵沶沷沸油沺治沼沽沾沿泀況泂泃泄泅泆泇泈泉泊泋泌泍泎泏泐泑泒泓泔法泖泗泘泙泚泛泜泝泞泟泠泡波泣泤泥泦泧注泩泪泫泬泭泮泯泰泱泲泳泴泵泶泷泸泹泺泻泼泽泾泿",
  "涀涁涂涃涄涅涆涇消涉涊涋涌涍涎涏涐涑涒涓涔涕涖涗涘涙涚涛涜涝涞涟涠涡涢涣涤涥润涧涨涩涪涫涬涭涮涯涰涱液涳涴涵涶涷涸涹涺涻涼涽涾涿淀淁淂淃淄淅淆淇淈淉淊淋淌淍淎淏淐淑淒淓淔淕淖淗淘淙淚淛淜淝淞淟淠淡淢淣淤淥淦淧淨淩淪淫淬淭淮淯淰深淲淳淴淵淶混淸淹淺添淼淽淾淿",
  "満溁溂溃溄溅溆溇溈溉溊溋溌溍溎溏源溑溒溓溔溕準溗溘溙溚溛溜溝溞溟溠溡溢溣溤溥溦溧溨溩溪溫溬溭溮溯溰溱溲溳溴溵溶溷溸溹溺溻溼溽溾溿滀滁滂滃滄滅滆滇滈滉滊滋滌滍滎滏滐滑滒滓滔滕滖滗滘滙滚滛滜滝滞滟滠满滢滣滤滥滦滧滨滩滪滫滬滭滮滯滰滱滲滳滴滵滶滷滸滹滺滻滼滽滾滿",
  "澀澁澂澃澄澅澆澇澈澉澊澋澌澍澎澏澐澑澒澓澔澕澖澗澘澙澚澛澜澝澞澟澠澡澢澣澤澥澦澧澨澩澪澫澬澭澮澯澰澱澲澳澴澵澶澷澸澹澺澻澼澽澾澿激濁濂濃濄濅濆濇濈濉濊濋濌濍濎濏濐濑濒濓濔濕濖濗濘濙濚濛濜濝濞濟濠濡濢濣濤濥濦濧濨濩濪濫濬濭濮濯濰濱濲濳濴濵濶濷濸濹濺濻濼濽濾濿",
  "炀炁炂炃炄炅炆炇炈炉炊炋炌炍炎炏炐炑炒炓炔炕炖炗炘炙炚炛炜炝炞炟炠炡炢炣炤炥炦炧炨炩炪炫炬炭炮炯炰炱炲炳炴炵炶炷炸点為炻炼炽炾炿烀烁烂烃烄烅烆烇烈烉烊烋烌烍烎烏烐烑烒烓烔烕烖烗烘烙烚烛烜烝烞烟烠烡烢烣烤烥烦烧烨烩烪烫烬热烮烯烰烱烲烳烴烵烶烷烸烹烺烻烼烽烾烿",
  "熀熁熂熃熄熅熆熇熈熉熊熋熌熍熎熏熐熑熒熓熔熕熖熗熘熙熚熛熜熝熞熟熠熡熢熣熤熥熦熧熨熩熪熫熬熭熮熯熰熱熲熳熴熵熶熷熸熹熺熻熼熽熾熿燀燁燂燃燄燅燆燇燈燉燊燋燌燍燎燏燐燑燒燓燔燕燖燗燘燙燚燛燜燝燞營燠燡燢燣燤燥燦燧燨燩燪燫燬燭燮燯燰燱燲燳燴燵燶燷燸燹燺燻燼燽燾燿",
  "犀犁犂犃犄犅犆犇犈犉犊犋犌犍犎犏犐犑犒犓犔犕犖犗犘犙犚犛犜犝犞犟犠犡犢犣犤犥犦犧犨犩犪犫犬犭犮犯犰犱犲犳犴犵状犷犸犹犺犻犼犽犾犿狀狁狂狃狄狅狆狇狈狉狊狋狌狍狎狏狐狑狒狓狔狕狖狗狘狙狚狛狜狝狞狟狠狡狢狣狤狥狦狧狨狩狪狫独狭狮狯狰狱狲狳狴狵狶狷狸狹狺狻狼狽狾狿",
  "玀玁玂玃玄玅玆率玈玉玊王玌玍玎玏玐玑玒玓玔玕玖玗玘玙玚玛玜玝玞玟玠玡玢玣玤玥玦玧玨玩玪玫玬玭玮环现玱玲玳玴玵玶玷玸玹玺玻玼玽玾玿珀珁珂珃珄珅珆珇珈珉珊珋珌珍珎珏珐珑珒珓珔珕珖珗珘珙珚珛珜珝珞珟珠珡珢珣珤珥珦珧珨珩珪珫珬班珮珯珰珱珲珳珴珵珶珷珸珹珺珻珼珽現珿",
  "璀璁璂璃璄璅璆璇璈璉璊璋璌璍璎璏璐璑璒璓璔璕璖璗璘璙璚璛璜璝璞璟璠璡璢璣璤璥璦璧璨璩璪璫璬璭璮璯環璱璲璳璴璵璶璷璸璹璺璻璼璽璾璿瓀瓁瓂瓃瓄瓅瓆瓇瓈瓉瓊瓋瓌瓍瓎瓏瓐瓑瓒瓓瓔瓕瓖瓗瓘瓙瓚瓛瓜瓝瓞瓟瓠瓡瓢瓣瓤瓥瓦瓧瓨瓩瓪瓫瓬瓭瓮瓯瓰瓱瓲瓳瓴瓵瓶瓷瓸瓹瓺瓻瓼瓽瓾瓿",
  "疀疁疂疃疄疅疆疇疈疉疊疋疌疍疎疏疐疑疒疓疔疕疖疗疘疙疚疛疜疝疞疟疠疡疢疣疤疥疦疧疨疩疪疫疬疭疮疯疰疱疲疳疴疵疶疷疸疹疺疻疼疽疾疿痀痁痂痃痄病痆症痈痉痊痋痌痍痎痏痐痑痒痓痔痕痖痗痘痙痚痛痜痝痞痟痠痡痢痣痤痥痦痧痨痩痪痫痬痭痮痯痰痱痲痳痴痵痶痷痸痹痺痻痼痽痾痿",
  "皀皁皂皃的皅皆皇皈皉皊皋皌皍皎皏皐皑皒皓皔皕皖皗皘皙皚皛皜皝皞皟皠皡皢皣皤皥皦皧皨皩皪皫皬皭皮皯皰皱皲皳皴皵皶皷皸皹皺皻皼皽皾皿盀盁盂盃盄盅盆盇盈盉益盋盌盍盎盏盐监盒盓盔盕盖盗盘盙盚盛盜盝盞盟盠盡盢監盤盥盦盧盨盩盪盫盬盭目盯盰盱盲盳直盵盶盷相盹盺盻盼盽盾盿",
  "瞀瞁瞂瞃瞄瞅瞆瞇瞈瞉瞊瞋瞌瞍瞎瞏瞐瞑瞒瞓瞔瞕瞖瞗瞘瞙瞚瞛瞜瞝瞞瞟瞠瞡瞢瞣瞤瞥瞦瞧瞨瞩瞪瞫瞬瞭瞮瞯瞰瞱瞲瞳瞴瞵瞶瞷瞸瞹瞺瞻瞼瞽瞾瞿矀矁矂矃矄矅矆矇矈矉矊矋矌矍矎矏矐矑矒矓矔矕矖矗矘矙矚矛矜矝矞矟矠矡矢矣矤知矦矧矨矩矪矫矬短矮矯矰矱矲石矴矵矶矷矸矹矺矻矼矽矾矿",
  "碀碁碂碃碄碅碆碇碈碉碊碋碌碍碎碏碐碑碒碓碔碕碖碗碘碙碚碛碜碝碞碟碠碡碢碣碤碥碦碧碨碩碪碫碬碭碮碯碰碱碲碳碴碵碶碷碸碹確碻碼碽碾碿磀磁磂磃磄磅磆磇磈磉磊磋磌磍磎磏磐磑磒磓磔磕磖磗磘磙磚磛磜磝磞磟磠磡磢磣磤磥磦磧磨磩磪磫磬磭磮磯磰磱磲磳磴磵磶磷磸磹磺磻磼磽磾磿",
  "禀禁禂禃禄禅禆禇禈禉禊禋禌禍禎福禐禑禒禓禔禕禖禗禘禙禚禛禜禝禞禟禠禡禢禣禤禥禦禧禨禩禪禫禬禭禮禯禰禱禲禳禴禵禶禷禸禹禺离禼禽禾禿秀私秂秃秄秅秆秇秈秉秊秋秌种秎秏秐科秒秓秔秕秖秗秘秙秚秛秜秝秞租秠秡秢秣秤秥秦秧秨秩秪秫秬秭秮积称秱秲秳秴秵秶秷秸秹秺移秼秽秾秿",
  "窀突窂窃窄窅窆窇窈窉窊窋窌窍窎窏窐窑窒窓窔窕窖窗窘窙窚窛窜窝窞窟窠窡窢窣窤窥窦窧窨窩窪窫窬窭窮窯窰窱窲窳窴窵窶窷窸窹窺窻窼窽窾窿竀竁竂竃竄竅竆竇竈竉竊立竌竍竎竏竐竑竒竓竔竕竖竗竘站竚竛竜竝竞竟章竡竢竣竤童竦竧竨竩竪竫竬竭竮端竰竱竲竳竴竵競竷竸竹竺竻竼竽竾竿",
  "简箁箂箃箄箅箆箇箈箉箊箋箌箍箎箏箐箑箒箓箔箕箖算箘箙箚箛箜箝箞箟箠管箢箣箤箥箦箧箨箩箪箫箬箭箮箯箰箱箲箳箴箵箶箷箸箹箺箻箼箽箾箿節篁篂篃範篅篆篇篈築篊篋篌篍篎篏篐篑篒篓篔篕篖篗篘篙篚篛篜篝篞篟篠篡篢篣篤篥篦篧篨篩篪篫篬篭篮篯篰篱篲篳篴篵篶篷篸篹篺篻篼篽篾篿",
  "粀粁粂粃粄粅粆粇粈粉粊粋粌粍粎粏粐粑粒粓粔粕粖粗粘粙粚粛粜粝粞粟粠粡粢粣粤粥粦粧粨粩粪粫粬粭粮粯粰粱粲粳粴粵粶粷粸粹粺粻粼粽精粿糀糁糂糃糄糅糆糇糈糉糊糋糌糍糎糏糐糑糒糓糔糕糖糗糘糙糚糛糜糝糞糟糠糡糢糣糤糥糦糧糨糩糪糫糬糭糮糯糰糱糲糳糴糵糶糷糸糹糺系糼糽糾糿",
  "綀綁綂綃綄綅綆綇綈綉綊綋綌綍綎綏綐綑綒經綔綕綖綗綘継続綛綜綝綞綟綠綡綢綣綤綥綦綧綨綩綪綫綬維綮綯綰綱網綳綴綵綶綷綸綹綺綻綼綽綾綿緀緁緂緃緄緅緆緇緈緉緊緋緌緍緎総緐緑緒緓緔緕緖緗緘緙線緛緜緝緞緟締緡緢緣緤緥緦緧編緩緪緫緬緭緮緯緰緱緲緳練緵緶緷緸緹緺緻緼緽緾緿",
  "纀纁纂纃纄纅纆纇纈纉纊纋續纍纎纏纐纑纒纓纔纕纖纗纘纙纚纛纜纝纞纟纠纡红纣纤纥约级纨纩纪纫纬纭纮纯纰纱纲纳纴纵纶纷纸纹纺纻纼纽纾线绀绁绂练组绅细织终绉绊绋绌绍绎经绐绑绒结绔绕绖绗绘给绚绛络绝绞统绠绡绢绣绤绥绦继绨绩绪绫绬续绮绯绰绱绲绳维绵绶绷绸绹绺绻综绽绾绿",
  "羀羁羂羃羄羅羆羇羈羉羊羋羌羍美羏羐羑羒羓羔羕羖羗羘羙羚羛羜羝羞羟羠羡羢羣群羥羦羧羨義羪羫羬羭羮羯羰羱羲羳羴羵羶羷羸羹羺羻羼羽羾羿翀翁翂翃翄翅翆翇翈翉翊翋翌翍翎翏翐翑習翓翔翕翖翗翘翙翚翛翜翝翞翟翠翡翢翣翤翥翦翧翨翩翪翫翬翭翮翯翰翱翲翳翴翵翶翷翸翹翺翻翼翽翾翿",
  "肀肁肂肃肄肅肆肇肈肉肊肋肌肍肎肏肐肑肒肓肔肕肖肗肘肙肚肛肜肝肞肟肠股肢肣肤肥肦肧肨肩肪肫肬肭肮肯肰肱育肳肴肵肶肷肸肹肺肻肼肽肾肿胀胁胂胃胄胅胆胇胈胉胊胋背胍胎胏胐胑胒胓胔胕胖胗胘胙胚胛胜胝胞胟胠胡胢胣胤胥胦胧胨胩胪胫胬胭胮胯胰胱胲胳胴胵胶胷胸胹胺胻胼能胾胿",
  "膀膁膂膃膄膅膆膇膈膉膊膋膌膍膎膏膐膑膒膓膔膕膖膗膘膙膚膛膜膝膞膟膠膡膢膣膤膥膦膧膨膩膪膫膬膭膮膯膰膱膲膳膴膵膶膷膸膹膺膻膼膽膾膿臀臁臂臃臄臅臆臇臈臉臊臋臌臍臎臏臐臑臒臓臔臕臖臗臘臙臚臛臜臝臞臟臠臡臢臣臤臥臦臧臨臩自臫臬臭臮臯臰臱臲至致臵臶臷臸臹臺臻臼臽臾臿",
  "芀芁节芃芄芅芆芇芈芉芊芋芌芍芎芏芐芑芒芓芔芕芖芗芘芙芚芛芜芝芞芟芠芡芢芣芤芥芦芧芨芩芪芫芬芭芮芯芰花芲芳芴芵芶芷芸芹芺芻芼芽芾芿苀苁苂苃苄苅苆苇苈苉苊苋苌苍苎苏苐苑苒苓苔苕苖苗苘苙苚苛苜苝苞苟苠苡苢苣苤若苦苧苨苩苪苫苬苭苮苯苰英苲苳苴苵苶苷苸苹苺苻苼苽苾苿",
  "莀莁莂莃莄莅莆莇莈莉莊莋莌莍莎莏莐莑莒莓莔莕莖莗莘莙莚莛莜莝莞莟莠莡莢莣莤莥莦莧莨莩莪莫莬莭莮莯莰莱莲莳莴莵莶获莸莹莺莻莼莽莾莿菀菁菂菃菄菅菆菇菈菉菊菋菌菍菎菏菐菑菒菓菔菕菖菗菘菙菚菛菜菝菞菟菠菡菢菣菤菥菦菧菨菩菪菫菬菭菮華菰菱菲菳菴菵菶菷菸菹菺菻菼菽菾菿",
  "蒀蒁蒂蒃蒄蒅蒆蒇蒈蒉蒊蒋蒌蒍蒎蒏蒐蒑蒒蒓蒔蒕蒖蒗蒘蒙蒚蒛蒜蒝蒞蒟蒠蒡蒢蒣蒤蒥蒦蒧蒨蒩蒪蒫蒬蒭蒮蒯蒰蒱蒲蒳蒴蒵蒶蒷蒸蒹蒺蒻蒼蒽蒾蒿蓀蓁蓂蓃蓄蓅蓆蓇蓈蓉蓊蓋蓌蓍蓎蓏蓐蓑蓒蓓蓔蓕蓖蓗蓘蓙蓚蓛蓜蓝蓞蓟蓠蓡蓢蓣蓤蓥蓦蓧蓨蓩蓪蓫蓬蓭蓮蓯蓰蓱蓲蓳蓴蓵蓶蓷蓸蓹蓺蓻蓼蓽蓾蓿",
  "薀薁薂薃薄薅薆薇薈薉薊薋薌薍薎薏薐薑薒薓薔薕薖薗薘薙薚薛薜薝薞薟薠薡薢薣薤薥薦薧薨薩薪薫薬薭薮薯薰薱薲薳薴薵薶薷薸薹薺薻薼薽薾薿藀藁藂藃藄藅藆藇藈藉藊藋藌藍藎藏藐藑藒藓藔藕藖藗藘藙藚藛藜藝藞藟藠藡藢藣藤藥藦藧藨藩藪藫藬藭藮藯藰藱藲藳藴藵藶藷藸藹藺藻藼藽藾藿",
  "蚀蚁蚂蚃蚄蚅蚆蚇蚈蚉蚊蚋蚌蚍蚎蚏蚐蚑蚒蚓蚔蚕蚖蚗蚘蚙蚚蚛蚜蚝蚞蚟蚠蚡蚢蚣蚤蚥蚦蚧蚨蚩蚪蚫蚬蚭蚮蚯蚰蚱蚲蚳蚴蚵蚶蚷蚸蚹蚺蚻蚼蚽蚾蚿蛀蛁蛂蛃蛄蛅蛆蛇蛈蛉蛊蛋蛌蛍蛎蛏蛐蛑蛒蛓蛔蛕蛖蛗蛘蛙蛚蛛蛜蛝蛞蛟蛠蛡蛢蛣蛤蛥蛦蛧蛨蛩蛪蛫蛬蛭蛮蛯蛰蛱蛲蛳蛴蛵蛶蛷蛸蛹蛺蛻蛼蛽蛾蛿",
  "螀螁螂螃螄螅螆螇螈螉螊螋螌融螎螏螐螑螒螓螔螕螖螗螘螙螚螛螜螝螞螟螠螡螢螣螤螥螦螧螨螩螪螫螬螭螮螯螰螱螲螳螴螵螶螷螸螹螺螻螼螽螾螿蟀蟁蟂蟃蟄蟅蟆蟇蟈蟉蟊蟋蟌蟍蟎蟏蟐蟑蟒蟓蟔蟕蟖蟗蟘蟙蟚蟛蟜蟝蟞蟟蟠蟡蟢蟣蟤蟥蟦蟧蟨蟩蟪蟫蟬蟭蟮蟯蟰蟱蟲蟳蟴蟵蟶蟷蟸蟹蟺蟻蟼蟽蟾蟿",
  "袀袁袂袃袄袅袆袇袈袉袊袋袌袍袎袏袐袑袒袓袔袕袖袗袘袙袚袛袜袝袞袟袠袡袢袣袤袥袦袧袨袩袪被袬袭袮袯袰袱袲袳袴袵袶袷袸袹袺袻袼袽袾袿裀裁裂裃裄装裆裇裈裉裊裋裌裍裎裏裐裑裒裓裔裕裖裗裘裙裚裛補裝裞裟裠裡裢裣裤裥裦裧裨裩裪裫裬裭裮裯裰裱裲裳裴裵裶裷裸裹裺裻裼製裾裿",
  "覀要覂覃覄覅覆覇覈覉覊見覌覍覎規覐覑覒覓覔覕視覗覘覙覚覛覜覝覞覟覠覡覢覣覤覥覦覧覨覩親覫覬覭覮覯覰覱覲観覴覵覶覷覸覹覺覻覼覽覾覿觀见观觃规觅视觇览觉觊觋觌觍觎觏觐觑角觓觔觕觖觗觘觙觚觛觜觝觞觟觠觡觢解觤觥触觧觨觩觪觫觬觭觮觯觰觱觲觳觴觵觶觷觸觹觺觻觼觽觾觿",
  "誀誁誂誃誄誅誆誇誈誉誊誋誌認誎誏誐誑誒誓誔誕誖誗誘誙誚誛誜誝語誟誠誡誢誣誤誥誦誧誨誩說誫説読誮誯誰誱課誳誴誵誶誷誸誹誺誻誼誽誾調諀諁諂諃諄諅諆談諈諉諊請諌諍諎諏諐諑諒諓諔諕論諗諘諙諚諛諜諝諞諟諠諡諢諣諤諥諦諧諨諩諪諫諬諭諮諯諰諱諲諳諴諵諶諷諸諹諺諻諼諽諾諿",
  "讀讁讂讃讄讅讆讇讈讉變讋讌讍讎讏讐讑讒讓讔讕讖讗讘讙讚讛讜讝讞讟讠计订讣认讥讦讧讨让讪讫讬训议讯记讱讲讳讴讵讶讷许讹论讻讼讽设访诀证诂诃评诅识诇诈诉诊诋诌词诎诏诐译诒诓诔试诖诗诘诙诚诛诜话诞诟诠诡询诣诤该详诧诨诩诪诫诬语诮误诰诱诲诳说诵诶请诸诹诺读诼诽课诿",
  "貀貁貂貃貄貅貆貇貈貉貊貋貌貍貎貏貐貑貒貓貔貕貖貗貘貙貚貛貜貝貞貟負財貢貣貤貥貦貧貨販貪貫責貭貮貯貰貱貲貳貴貵貶買貸貹貺費貼貽貾貿賀賁賂賃賄賅賆資賈賉賊賋賌賍賎賏賐賑賒賓賔賕賖賗賘賙賚賛賜賝賞賟賠賡賢賣賤賥賦賧賨賩質賫賬賭賮賯賰賱賲賳賴賵賶賷賸賹賺賻購賽賾賿",
  "趀趁趂趃趄超趆趇趈趉越趋趌趍趎趏趐趑趒趓趔趕趖趗趘趙趚趛趜趝趞趟趠趡趢趣趤趥趦趧趨趩趪趫趬趭趮趯趰趱趲足趴趵趶趷趸趹趺趻趼趽趾趿跀跁跂跃跄跅跆跇跈跉跊跋跌跍跎跏跐跑跒跓跔跕跖跗跘跙跚跛跜距跞跟跠跡跢跣跤跥跦跧跨跩跪跫跬跭跮路跰跱跲跳跴践跶跷跸跹跺跻跼跽跾跿",
  "躀躁躂躃躄躅躆躇躈躉躊躋躌躍躎躏躐躑躒躓躔躕躖躗躘躙躚躛躜躝躞躟躠躡躢躣躤躥躦躧躨躩躪身躬躭躮躯躰躱躲躳躴躵躶躷躸躹躺躻躼躽躾躿軀軁軂軃軄軅軆軇軈軉車軋軌軍軎軏軐軑軒軓軔軕軖軗軘軙軚軛軜軝軞軟軠軡転軣軤軥軦軧軨軩軪軫軬軭軮軯軰軱軲軳軴軵軶軷軸軹軺軻軼軽軾軿",
  "辀辁辂较辄辅辆辇辈辉辊辋辌辍辎辏辐辑辒输辔辕辖辗辘辙辚辛辜辝辞辟辠辡辢辣辤辥辦辧辨辩辪辫辬辭辮辯辰辱農辳辴辵辶辷辸边辺辻込辽达辿迀迁迂迃迄迅迆过迈迉迊迋迌迍迎迏运近迒迓返迕迖迗还这迚进远违连迟迠迡迢迣迤迥迦迧迨迩迪迫迬迭迮迯述迱迲迳迴迵迶迷迸迹迺迻迼追迾迿",
  "邀邁邂邃還邅邆邇邈邉邊邋邌邍邎邏邐邑邒邓邔邕邖邗邘邙邚邛邜邝邞邟邠邡邢那邤邥邦邧邨邩邪邫邬邭邮邯邰邱邲邳邴邵邶邷邸邹邺邻邼邽邾邿郀郁郂郃郄郅郆郇郈郉郊郋郌郍郎郏郐郑郒郓郔郕郖郗郘郙郚郛郜郝郞郟郠郡郢郣郤郥郦郧部郩郪郫郬郭郮郯郰郱郲郳郴郵郶郷郸郹郺郻郼都郾郿",
  "醀醁醂醃醄醅醆醇醈醉醊醋醌醍醎醏醐醑醒醓醔醕醖醗醘醙醚醛醜醝醞醟醠醡醢醣醤醥醦醧醨醩醪醫醬醭醮醯醰醱醲醳醴醵醶醷醸醹醺醻醼醽醾醿釀釁釂釃釄釅釆采釈釉释釋里重野量釐金釒釓釔釕釖釗釘釙釚釛釜針釞釟釠釡釢釣釤釥釦釧釨釩釪釫釬釭釮釯釰釱釲釳釴釵釶釷釸釹釺釻釼釽釾釿",
  "銀銁銂銃銄銅銆銇銈銉銊銋銌銍銎銏銐銑銒銓銔銕銖銗銘銙銚銛銜銝銞銟銠銡銢銣銤銥銦銧銨銩銪銫銬銭銮銯銰銱銲銳銴銵銶銷銸銹銺銻銼銽銾銿鋀鋁鋂鋃鋄鋅鋆鋇鋈鋉鋊鋋鋌鋍鋎鋏鋐鋑鋒鋓鋔鋕鋖鋗鋘鋙鋚鋛鋜鋝鋞鋟鋠鋡鋢鋣鋤鋥鋦鋧鋨鋩鋪鋫鋬鋭鋮鋯鋰鋱鋲鋳鋴鋵鋶鋷鋸鋹鋺鋻鋼鋽鋾鋿",
  "鎀鎁鎂鎃鎄鎅鎆鎇鎈鎉鎊鎋鎌鎍鎎鎏鎐鎑鎒鎓鎔鎕鎖鎗鎘鎙鎚鎛鎜鎝鎞鎟鎠鎡鎢鎣鎤鎥鎦鎧鎨鎩鎪鎫鎬鎭鎮鎯鎰鎱鎲鎳鎴鎵鎶鎷鎸鎹鎺鎻鎼鎽鎾鎿鏀鏁鏂鏃鏄鏅鏆鏇鏈鏉鏊鏋鏌鏍鏎鏏鏐鏑鏒鏓鏔鏕鏖鏗鏘鏙鏚鏛鏜鏝鏞鏟鏠鏡鏢鏣鏤鏥鏦鏧鏨鏩鏪鏫鏬鏭鏮鏯鏰鏱鏲鏳鏴鏵鏶鏷鏸鏹鏺鏻鏼鏽鏾鏿",
  "钀钁钂钃钄钅钆钇针钉钊钋钌钍钎钏钐钑钒钓钔钕钖钗钘钙钚钛钜钝钞钟钠钡钢钣钤钥钦钧钨钩钪钫钬钭钮钯钰钱钲钳钴钵钶钷钸钹钺钻钼钽钾钿铀铁铂铃铄铅铆铇铈铉铊铋铌铍铎铏铐铑铒铓铔铕铖铗铘铙铚铛铜铝铞铟铠铡铢铣铤铥铦铧铨铩铪铫铬铭铮铯铰铱铲铳铴铵银铷铸铹铺铻铼铽链铿",
  "門閁閂閃閄閅閆閇閈閉閊開閌閍閎閏閐閑閒間閔閕閖閗閘閙閚閛閜閝閞閟閠閡関閣閤閥閦閧閨閩閪閫閬閭閮閯閰閱閲閳閴閵閶閷閸閹閺閻閼閽閾閿闀闁闂闃闄闅闆闇闈闉闊闋闌闍闎闏闐闑闒闓闔闕闖闗闘闙闚闛關闝闞闟闠闡闢闣闤闥闦闧门闩闪闫闬闭问闯闰闱闲闳间闵闶闷闸闹闺闻闼闽闾闿",
  "隀隁隂隃隄隅隆隇隈隉隊隋隌隍階随隐隑隒隓隔隕隖隗隘隙隚際障隝隞隟隠隡隢隣隤隥隦隧隨隩險隫隬隭隮隯隰隱隲隳隴隵隶隷隸隹隺隻隼隽难隿雀雁雂雃雄雅集雇雈雉雊雋雌雍雎雏雐雑雒雓雔雕雖雗雘雙雚雛雜雝雞雟雠雡離難雤雥雦雧雨雩雪雫雬雭雮雯雰雱雲雳雴雵零雷雸雹雺電雼雽雾雿",
  "鞀鞁鞂鞃鞄鞅鞆鞇鞈鞉鞊鞋鞌鞍鞎鞏鞐鞑鞒鞓鞔鞕鞖鞗鞘鞙鞚鞛鞜鞝鞞鞟鞠鞡鞢鞣鞤鞥鞦鞧鞨鞩鞪鞫鞬鞭鞮鞯鞰鞱鞲鞳鞴鞵鞶鞷鞸鞹鞺鞻鞼鞽鞾鞿韀韁韂韃韄韅韆韇韈韉韊韋韌韍韎韏韐韑韒韓韔韕韖韗韘韙韚韛韜韝韞韟韠韡韢韣韤韥韦韧韨韩韪韫韬韭韮韯韰韱韲音韴韵韶韷韸韹韺韻韼韽韾響",
  "颀颁颂颃预颅领颇颈颉颊颋颌颍颎颏颐频颒颓颔颕颖颗题颙颚颛颜额颞颟颠颡颢颣颤颥颦颧風颩颪颫颬颭颮颯颰颱颲颳颴颵颶颷颸颹颺颻颼颽颾颿飀飁飂飃飄飅飆飇飈飉飊飋飌飍风飏飐飑飒飓飔飕飖飗飘飙飚飛飜飝飞食飠飡飢飣飤飥飦飧飨飩飪飫飬飭飮飯飰飱飲飳飴飵飶飷飸飹飺飻飼飽飾飿",
  "馀馁馂馃馄馅馆馇馈馉馊馋馌馍馎馏馐馑馒馓馔馕首馗馘香馚馛馜馝馞馟馠馡馢馣馤馥馦馧馨馩馪馫馬馭馮馯馰馱馲馳馴馵馶馷馸馹馺馻馼馽馾馿駀駁駂駃駄駅駆駇駈駉駊駋駌駍駎駏駐駑駒駓駔駕駖駗駘駙駚駛駜駝駞駟駠駡駢駣駤駥駦駧駨駩駪駫駬駭駮駯駰駱駲駳駴駵駶駷駸駹駺駻駼駽駾駿",
  "骀骁骂骃骄骅骆骇骈骉骊骋验骍骎骏骐骑骒骓骔骕骖骗骘骙骚骛骜骝骞骟骠骡骢骣骤骥骦骧骨骩骪骫骬骭骮骯骰骱骲骳骴骵骶骷骸骹骺骻骼骽骾骿髀髁髂髃髄髅髆髇髈髉髊髋髌髍髎髏髐髑髒髓體髕髖髗高髙髚髛髜髝髞髟髠髡髢髣髤髥髦髧髨髩髪髫髬髭髮髯髰髱髲髳髴髵髶髷髸髹髺髻髼髽髾髿",
  "鮀鮁鮂鮃鮄鮅鮆鮇鮈鮉鮊鮋鮌鮍鮎鮏鮐鮑鮒鮓鮔鮕鮖鮗鮘鮙鮚鮛鮜鮝鮞鮟鮠鮡鮢鮣鮤鮥鮦鮧鮨鮩鮪鮫鮬鮭鮮鮯鮰鮱鮲鮳鮴鮵鮶鮷鮸鮹鮺鮻鮼鮽鮾鮿鯀鯁鯂鯃鯄鯅鯆鯇鯈鯉鯊鯋鯌鯍鯎鯏鯐鯑鯒鯓鯔鯕鯖鯗鯘鯙鯚鯛鯜鯝鯞鯟鯠鯡鯢鯣鯤鯥鯦鯧鯨鯩鯪鯫鯬鯭鯮鯯鯰鯱鯲鯳鯴鯵鯶鯷鯸鯹鯺鯻鯼鯽鯾鯿",
  "鲀鲁鲂鲃鲄鲅鲆鲇鲈鲉鲊鲋鲌鲍鲎鲏鲐鲑鲒鲓鲔鲕鲖鲗鲘鲙鲚鲛鲜鲝鲞鲟鲠鲡鲢鲣鲤鲥鲦鲧鲨鲩鲪鲫鲬鲭鲮鲯鲰鲱鲲鲳鲴鲵鲶鲷鲸鲹鲺鲻鲼鲽鲾鲿鳀鳁鳂鳃鳄鳅鳆鳇鳈鳉鳊鳋鳌鳍鳎鳏鳐鳑鳒鳓鳔鳕鳖鳗鳘鳙鳚鳛鳜鳝鳞鳟鳠鳡鳢鳣鳤鳥鳦鳧鳨鳩鳪鳫鳬鳭鳮鳯鳰鳱鳲鳳鳴鳵鳶鳷鳸鳹鳺鳻鳼鳽鳾鳿",
  "鶀鶁鶂鶃鶄鶅鶆鶇鶈鶉鶊鶋鶌鶍鶎鶏鶐鶑鶒鶓鶔鶕鶖鶗鶘鶙鶚鶛鶜鶝鶞鶟鶠鶡鶢鶣鶤鶥鶦鶧鶨鶩鶪鶫鶬鶭鶮鶯鶰鶱鶲鶳鶴鶵鶶鶷鶸鶹鶺鶻鶼鶽鶾鶿鷀鷁鷂鷃鷄鷅鷆鷇鷈鷉鷊鷋鷌鷍鷎鷏鷐鷑鷒鷓鷔鷕鷖鷗鷘鷙鷚鷛鷜鷝鷞鷟鷠鷡鷢鷣鷤鷥鷦鷧鷨鷩鷪鷫鷬鷭鷮鷯鷰鷱鷲鷳鷴鷵鷶鷷鷸鷹鷺鷻鷼鷽鷾鷿",
  "麀麁麂麃麄麅麆麇麈麉麊麋麌麍麎麏麐麑麒麓麔麕麖麗麘麙麚麛麜麝麞麟麠麡麢麣麤麥麦麧麨麩麪麫麬麭麮麯麰麱麲麳麴麵麶麷麸麹麺麻麼麽麾麿黀黁黂黃黄黅黆黇黈黉黊黋黌黍黎黏黐黑黒黓黔黕黖黗默黙黚黛黜黝點黟黠黡黢黣黤黥黦黧黨黩黪黫黬黭黮黯黰黱黲黳黴黵黶黷黸黹黺黻黼黽黾黿",
  "龀龁龂龃龄龅龆龇龈龉龊龋龌龍龎龏龐龑龒龓龔龕龖龗龘龙龚龛龜龝龞龟龠龡龢龣龤龥龦龧龨龩龪龫龬龭龮龯龰龱龲龳龴龵龶龷龸龹龺龻龼龽龾龿鿀鿁鿂鿃鿄鿅鿆鿇鿈鿉鿊鿋鿌鿍鿎鿏鿐鿑鿒鿓鿔鿕鿖鿗鿘鿙鿚鿛鿜鿝鿞鿟鿠鿡鿢鿣鿤鿥鿦鿧鿨鿩鿪鿫鿬鿭鿮鿯鿰鿱鿲鿳鿴鿵鿶鿷鿸鿹鿺鿻鿼鿽鿾鿿",
  "ꂀꂁꂂꂃꂄꂅꂆꂇꂈꂉꂊꂋꂌꂍꂎꂏꂐꂑꂒꂓꂔꂕꂖꂗꂘꂙꂚꂛꂜꂝꂞꂟꂠꂡꂢꂣꂤꂥꂦꂧꂨꂩꂪꂫꂬꂭꂮꂯꂰꂱꂲꂳꂴꂵꂶꂷꂸꂹꂺꂻꂼꂽꂾꂿꃀꃁꃂꃃꃄꃅꃆꃇꃈꃉꃊꃋꃌꃍꃎꃏꃐꃑꃒꃓꃔꃕꃖꃗꃘꃙꃚꃛꃜꃝꃞꃟꃠꃡꃢꃣꃤꃥꃦꃧꃨꃩꃪꃫꃬꃭꃮꃯꃰꃱꃲꃳꃴꃵꃶꃷꃸꃹꃺꃻꃼꃽꃾꃿ",
  "ꆀꆁꆂꆃꆄꆅꆆꆇꆈꆉꆊꆋꆌꆍꆎꆏꆐꆑꆒꆓꆔꆕꆖꆗꆘꆙꆚꆛꆜꆝꆞꆟꆠꆡꆢꆣꆤꆥꆦꆧꆨꆩꆪꆫꆬꆭꆮꆯꆰꆱꆲꆳꆴꆵꆶꆷꆸꆹꆺꆻꆼꆽꆾꆿꇀꇁꇂꇃꇄꇅꇆꇇꇈꇉꇊꇋꇌꇍꇎꇏꇐꇑꇒꇓꇔꇕꇖꇗꇘꇙꇚꇛꇜꇝꇞꇟꇠꇡꇢꇣꇤꇥꇦꇧꇨꇩꇪꇫꇬꇭꇮꇯꇰꇱꇲꇳꇴꇵꇶꇷꇸꇹꇺꇻꇼꇽꇾꇿ",
  "ꊀꊁꊂꊃꊄꊅꊆꊇꊈꊉꊊꊋꊌꊍꊎꊏꊐꊑꊒꊓꊔꊕꊖꊗꊘꊙꊚꊛꊜꊝꊞꊟꊠꊡꊢꊣꊤꊥꊦꊧꊨꊩꊪꊫꊬꊭꊮꊯꊰꊱꊲꊳꊴꊵꊶꊷꊸꊹꊺꊻꊼꊽꊾꊿꋀꋁꋂꋃꋄꋅꋆꋇꋈꋉꋊꋋꋌꋍꋎꋏꋐꋑꋒꋓꋔꋕꋖꋗꋘꋙꋚꋛꋜꋝꋞꋟꋠꋡꋢꋣꋤꋥꋦꋧꋨꋩꋪꋫꋬꋭꋮꋯꋰꋱꋲꋳꋴꋵꋶꋷꋸꋹꋺꋻꋼꋽꋾꋿ",
  "ꎀꎁꎂꎃꎄꎅꎆꎇꎈꎉꎊꎋꎌꎍꎎꎏꎐꎑꎒꎓꎔꎕꎖꎗꎘꎙꎚꎛꎜꎝꎞꎟꎠꎡꎢꎣꎤꎥꎦꎧꎨꎩꎪꎫꎬꎭꎮꎯꎰꎱꎲꎳꎴꎵꎶꎷꎸꎹꎺꎻꎼꎽꎾꎿꏀꏁꏂꏃꏄꏅꏆꏇꏈꏉꏊꏋꏌꏍꏎꏏꏐꏑꏒꏓꏔꏕꏖꏗꏘꏙꏚꏛꏜꏝꏞꏟꏠꏡꏢꏣꏤꏥꏦꏧꏨꏩꏪꏫꏬꏭꏮꏯꏰꏱꏲꏳꏴꏵꏶꏷꏸꏹꏺꏻꏼꏽꏾꏿ",
  "ꒀꒁꒂꒃꒄꒅꒆꒇꒈꒉꒊꒋꒌ꒍꒎꒏꒐꒑꒒꒓꒔꒕꒖꒗꒘꒙꒚꒛꒜꒝꒞꒟꒠꒡꒢꒣꒤꒥꒦꒧꒨꒩꒪꒫꒬꒭꒮꒯꒰꒱꒲꒳꒴꒵꒶꒷꒸꒹꒺꒻꒼꒽꒾꒿꓀꓁꓂꓃꓄꓅꓆꓇꓈꓉꓊꓋꓌꓍꓎꓏ꓐꓑꓒꓓꓔꓕꓖꓗꓘꓙꓚꓛꓜꓝꓞꓟꓠꓡꓢꓣꓤꓥꓦꓧꓨꓩꓪꓫꓬꓭꓮꓯꓰꓱꓲꓳꓴꓵꓶꓷꓸꓹꓺꓻꓼꓽ꓾꓿",
  "ꖀꖁꖂꖃꖄꖅꖆꖇꖈꖉꖊꖋꖌꖍꖎꖏꖐꖑꖒꖓꖔꖕꖖꖗꖘꖙꖚꖛꖜꖝꖞꖟꖠꖡꖢꖣꖤꖥꖦꖧꖨꖩꖪꖫꖬꖭꖮꖯꖰꖱꖲꖳꖴꖵꖶꖷꖸꖹꖺꖻꖼꖽꖾꖿꗀꗁꗂꗃꗄꗅꗆꗇꗈꗉꗊꗋꗌꗍꗎꗏꗐꗑꗒꗓꗔꗕꗖꗗꗘꗙꗚꗛꗜꗝꗞꗟꗠꗡꗢꗣꗤꗥꗦꗧꗨꗩꗪꗫꗬꗭꗮꗯꗰꗱꗲꗳꗴꗵꗶꗷꗸꗹꗺꗻꗼꗽꗾꗿ",
  "ꚀꚁꚂꚃꚄꚅꚆꚇꚈꚉꚊꚋꚌꚍꚎꚏꚐꚑꚒꚓꚔꚕꚖꚗꚘꚙꚚꚛꚜꚝꚞꚟꚠꚡꚢꚣꚤꚥꚦꚧꚨꚩꚪꚫꚬꚭꚮꚯꚰꚱꚲꚳꚴꚵꚶꚷꚸꚹꚺꚻꚼꚽꚾꚿꛀꛁꛂꛃꛄꛅꛆꛇꛈꛉꛊꛋꛌꛍꛎꛏꛐꛑꛒꛓꛔꛕꛖꛗꛘꛙꛚꛛꛜꛝꛞꛟꛠꛡꛢꛣꛤꛥꛦꛧꛨꛩꛪꛫꛬꛭꛮꛯ꛰꛱꛲꛳꛴꛵꛶꛷꛸꛹꛺꛻꛼꛽꛾꛿",
  "ꞀꞁꞂꞃꞄꞅꞆꞇꞈ꞉꞊ꞋꞌꞍꞎꞏꞐꞑꞒꞓꞔꞕꞖꞗꞘꞙꞚꞛꞜꞝꞞꞟꞠꞡꞢꞣꞤꞥꞦꞧꞨꞩꞪꞫꞬꞭꞮꞯꞰꞱꞲꞳꞴꞵꞶꞷꞸꞹꞺꞻꞼꞽꞾꞿꟀꟁꟂꟃꟄꟅꟆꟇꟈꟉꟊꟋꟌꟍ꟎꟏Ꟑꟑ꟒ꟓ꟔ꟕꟖꟗꟘꟙꟚꟛꟜ꟝꟞꟟꟠꟡꟢꟣꟤꟥꟦꟧꟨꟩꟪꟫꟬꟭꟮꟯꟰꟱ꟲꟳꟴꟵꟶꟷꟸꟹꟺꟻꟼꟽꟾꟿ",
  "ꢀꢁꢂꢃꢄꢅꢆꢇꢈꢉꢊꢋꢌꢍꢎꢏꢐꢑꢒꢓꢔꢕꢖꢗꢘꢙꢚꢛꢜꢝꢞꢟꢠꢡꢢꢣꢤꢥꢦꢧꢨꢩꢪꢫꢬꢭꢮꢯꢰꢱꢲꢳꢴꢵꢶꢷꢸꢹꢺꢻꢼꢽꢾꢿꣀꣁꣂꣃ꣄ꣅ꣆꣇꣈꣉꣊꣋꣌꣍꣎꣏꣐꣑꣒꣓꣔꣕꣖꣗꣘꣙꣚꣛꣜꣝꣞꣟꣠꣡꣢꣣꣤꣥꣦꣧꣨꣩꣪꣫꣬꣭꣮꣯꣰꣱ꣲꣳꣴꣵꣶꣷ꣸꣹꣺ꣻ꣼ꣽꣾꣿ",
  "ꦀꦁꦂꦃꦄꦅꦆꦇꦈꦉꦊꦋꦌꦍꦎꦏꦐꦑꦒꦓꦔꦕꦖꦗꦘꦙꦚꦛꦜꦝꦞꦟꦠꦡꦢꦣꦤꦥꦦꦧꦨꦩꦪꦫꦬꦭꦮꦯꦰꦱꦲ꦳ꦴꦵꦶꦷꦸꦹꦺꦻꦼꦽꦾꦿ꧀꧁꧂꧃꧄꧅꧆꧇꧈꧉꧊꧋꧌꧍꧎ꧏ꧐꧑꧒꧓꧔꧕꧖꧗꧘꧙꧚꧛꧜꧝꧞꧟ꧠꧡꧢꧣꧤꧥꧦꧧꧨꧩꧪꧫꧬꧭꧮꧯ꧰꧱꧲꧳꧴꧵꧶꧷꧸꧹ꧺꧻꧼꧽꧾ꧿",
  "ꪀꪁꪂꪃꪄꪅꪆꪇꪈꪉꪊꪋꪌꪍꪎꪏꪐꪑꪒꪓꪔꪕꪖꪗꪘꪙꪚꪛꪜꪝꪞꪟꪠꪡꪢꪣꪤꪥꪦꪧꪨꪩꪪꪫꪬꪭꪮꪯꪰꪱꪴꪲꪳꪵꪶꪷꪸꪹꪺꪻꪼꪽꪾ꪿ꫀ꫁ꫂ꫃꫄꫅꫆꫇꫈꫉꫊꫋꫌꫍꫎꫏꫐꫑꫒꫓꫔꫕꫖꫗꫘꫙꫚ꫛꫜꫝ꫞꫟ꫠꫡꫢꫣꫤꫥꫦꫧꫨꫩꫪꫫꫬꫭꫮꫯ꫰꫱ꫲꫳꫴꫵ꫶꫷꫸꫹꫺꫻꫼꫽꫾꫿",
  "ꮀꮁꮂꮃꮄꮅꮆꮇꮈꮉꮊꮋꮌꮍꮎꮏꮐꮑꮒꮓꮔꮕꮖꮗꮘꮙꮚꮛꮜꮝꮞꮟꮠꮡꮢꮣꮤꮥꮦꮧꮨꮩꮪꮫꮬꮭꮮꮯꮰꮱꮲꮳꮴꮵꮶꮷꮸꮹꮺꮻꮼꮽꮾꮿꯀꯁꯂꯃꯄꯅꯆꯇꯈꯉꯊꯋꯌꯍꯎꯏꯐꯑꯒꯓꯔꯕꯖꯗꯘꯙꯚꯛꯜꯝꯞꯟꯠꯡꯢꯣꯤꯥꯦꯧꯨꯩꯪ꯫꯬꯭꯮꯯꯰꯱꯲꯳꯴꯵꯶꯷꯸꯹꯺꯻꯼꯽꯾꯿",
  "검겁겂것겄겅겆겇겈겉겊겋게겍겎겏겐겑겒겓겔겕겖겗겘겙겚겛겜겝겞겟겠겡겢겣겤겥겦겧겨격겪겫견겭겮겯결겱겲겳겴겵겶겷겸겹겺겻겼경겾겿곀곁곂곃계곅곆곇곈곉곊곋곌곍곎곏곐곑곒곓곔곕곖곗곘곙곚곛곜곝곞곟고곡곢곣곤곥곦곧골곩곪곫곬곭곮곯곰곱곲곳곴공곶곷곸곹곺곻과곽곾곿",
  "궀궁궂궃궄궅궆궇궈궉궊궋권궍궎궏궐궑궒궓궔궕궖궗궘궙궚궛궜궝궞궟궠궡궢궣궤궥궦궧궨궩궪궫궬궭궮궯궰궱궲궳궴궵궶궷궸궹궺궻궼궽궾궿귀귁귂귃귄귅귆귇귈귉귊귋귌귍귎귏귐귑귒귓귔귕귖귗귘귙귚귛규귝귞귟균귡귢귣귤귥귦귧귨귩귪귫귬귭귮귯귰귱귲귳귴귵귶귷그극귺귻근귽귾귿",
  "꺀꺁꺂꺃꺄꺅꺆꺇꺈꺉꺊꺋꺌꺍꺎꺏꺐꺑꺒꺓꺔꺕꺖꺗꺘꺙꺚꺛꺜꺝꺞꺟꺠꺡꺢꺣꺤꺥꺦꺧꺨꺩꺪꺫꺬꺭꺮꺯꺰꺱꺲꺳꺴꺵꺶꺷꺸꺹꺺꺻꺼꺽꺾꺿껀껁껂껃껄껅껆껇껈껉껊껋껌껍껎껏껐껑껒껓껔껕껖껗께껙껚껛껜껝껞껟껠껡껢껣껤껥껦껧껨껩껪껫껬껭껮껯껰껱껲껳껴껵껶껷껸껹껺껻껼껽껾껿",
  "꾀꾁꾂꾃꾄꾅꾆꾇꾈꾉꾊꾋꾌꾍꾎꾏꾐꾑꾒꾓꾔꾕꾖꾗꾘꾙꾚꾛꾜꾝꾞꾟꾠꾡꾢꾣꾤꾥꾦꾧꾨꾩꾪꾫꾬꾭꾮꾯꾰꾱꾲꾳꾴꾵꾶꾷꾸꾹꾺꾻꾼꾽꾾꾿꿀꿁꿂꿃꿄꿅꿆꿇꿈꿉꿊꿋꿌꿍꿎꿏꿐꿑꿒꿓꿔꿕꿖꿗꿘꿙꿚꿛꿜꿝꿞꿟꿠꿡꿢꿣꿤꿥꿦꿧꿨꿩꿪꿫꿬꿭꿮꿯꿰꿱꿲꿳꿴꿵꿶꿷꿸꿹꿺꿻꿼꿽꿾꿿",
  "낀낁낂낃낄낅낆낇낈낉낊낋낌낍낎낏낐낑낒낓낔낕낖낗나낙낚낛난낝낞낟날낡낢낣낤낥낦낧남납낪낫났낭낮낯낰낱낲낳내낵낶낷낸낹낺낻낼낽낾낿냀냁냂냃냄냅냆냇냈냉냊냋냌냍냎냏냐냑냒냓냔냕냖냗냘냙냚냛냜냝냞냟냠냡냢냣냤냥냦냧냨냩냪냫냬냭냮냯냰냱냲냳냴냵냶냷냸냹냺냻냼냽냾냿",
  "놀놁놂놃놄놅놆놇놈놉놊놋놌농놎놏놐놑높놓놔놕놖놗놘놙놚놛놜놝놞놟놠놡놢놣놤놥놦놧놨놩놪놫놬놭놮놯놰놱놲놳놴놵놶놷놸놹놺놻놼놽놾놿뇀뇁뇂뇃뇄뇅뇆뇇뇈뇉뇊뇋뇌뇍뇎뇏뇐뇑뇒뇓뇔뇕뇖뇗뇘뇙뇚뇛뇜뇝뇞뇟뇠뇡뇢뇣뇤뇥뇦뇧뇨뇩뇪뇫뇬뇭뇮뇯뇰뇱뇲뇳뇴뇵뇶뇷뇸뇹뇺뇻뇼뇽뇾뇿",
  "늀늁늂늃늄늅늆늇늈늉늊늋늌늍늎늏느늑늒늓는늕늖늗늘늙늚늛늜늝늞늟늠늡늢늣늤능늦늧늨늩늪늫늬늭늮늯늰늱늲늳늴늵늶늷늸늹늺늻늼늽늾늿닀닁닂닃닄닅닆닇니닉닊닋닌닍닎닏닐닑닒닓닔닕닖닗님닙닚닛닜닝닞닟닠닡닢닣다닥닦닧단닩닪닫달닭닮닯닰닱닲닳담답닶닷닸당닺닻닼닽닾닿",
  "뎀뎁뎂뎃뎄뎅뎆뎇뎈뎉뎊뎋뎌뎍뎎뎏뎐뎑뎒뎓뎔뎕뎖뎗뎘뎙뎚뎛뎜뎝뎞뎟뎠뎡뎢뎣뎤뎥뎦뎧뎨뎩뎪뎫뎬뎭뎮뎯뎰뎱뎲뎳뎴뎵뎶뎷뎸뎹뎺뎻뎼뎽뎾뎿돀돁돂돃도독돆돇돈돉돊돋돌돍돎돏돐돑돒돓돔돕돖돗돘동돚돛돜돝돞돟돠돡돢돣돤돥돦돧돨돩돪돫돬돭돮돯돰돱돲돳돴돵돶돷돸돹돺돻돼돽돾돿",
  "뒀뒁뒂뒃뒄뒅뒆뒇뒈뒉뒊뒋뒌뒍뒎뒏뒐뒑뒒뒓뒔뒕뒖뒗뒘뒙뒚뒛뒜뒝뒞뒟뒠뒡뒢뒣뒤뒥뒦뒧뒨뒩뒪뒫뒬뒭뒮뒯뒰뒱뒲뒳뒴뒵뒶뒷뒸뒹뒺뒻뒼뒽뒾뒿듀듁듂듃듄듅듆듇듈듉듊듋듌듍듎듏듐듑듒듓듔듕듖듗듘듙듚듛드득듞듟든듡듢듣들듥듦듧듨듩듪듫듬듭듮듯듰등듲듳듴듵듶듷듸듹듺듻듼듽듾듿",
  "떀떁떂떃떄떅떆떇떈떉떊떋떌떍떎떏떐떑떒떓떔떕떖떗떘떙떚떛떜떝떞떟떠떡떢떣떤떥떦떧떨떩떪떫떬떭떮떯떰떱떲떳떴떵떶떷떸떹떺떻떼떽떾떿뗀뗁뗂뗃뗄뗅뗆뗇뗈뗉뗊뗋뗌뗍뗎뗏뗐뗑뗒뗓뗔뗕뗖뗗뗘뗙뗚뗛뗜뗝뗞뗟뗠뗡뗢뗣뗤뗥뗦뗧뗨뗩뗪뗫뗬뗭뗮뗯뗰뗱뗲뗳뗴뗵뗶뗷뗸뗹뗺뗻뗼뗽뗾뗿",
  "뚀뚁뚂뚃뚄뚅뚆뚇뚈뚉뚊뚋뚌뚍뚎뚏뚐뚑뚒뚓뚔뚕뚖뚗뚘뚙뚚뚛뚜뚝뚞뚟뚠뚡뚢뚣뚤뚥뚦뚧뚨뚩뚪뚫뚬뚭뚮뚯뚰뚱뚲뚳뚴뚵뚶뚷뚸뚹뚺뚻뚼뚽뚾뚿뛀뛁뛂뛃뛄뛅뛆뛇뛈뛉뛊뛋뛌뛍뛎뛏뛐뛑뛒뛓뛔뛕뛖뛗뛘뛙뛚뛛뛜뛝뛞뛟뛠뛡뛢뛣뛤뛥뛦뛧뛨뛩뛪뛫뛬뛭뛮뛯뛰뛱뛲뛳뛴뛵뛶뛷뛸뛹뛺뛻뛼뛽뛾뛿",
  "란랁랂랃랄랅랆랇랈랉랊랋람랍랎랏랐랑랒랓랔랕랖랗래랙랚랛랜랝랞랟랠랡랢랣랤랥랦랧램랩랪랫랬랭랮랯랰랱랲랳랴략랶랷랸랹랺랻랼랽랾랿럀럁럂럃럄럅럆럇럈량럊럋럌럍럎럏럐럑럒럓럔럕럖럗럘럙럚럛럜럝럞럟럠럡럢럣럤럥럦럧럨럩럪럫러럭럮럯런럱럲럳럴럵럶럷럸럹럺럻럼럽럾럿",
  "뢀뢁뢂뢃뢄뢅뢆뢇뢈뢉뢊뢋뢌뢍뢎뢏뢐뢑뢒뢓뢔뢕뢖뢗뢘뢙뢚뢛뢜뢝뢞뢟뢠뢡뢢뢣뢤뢥뢦뢧뢨뢩뢪뢫뢬뢭뢮뢯뢰뢱뢲뢳뢴뢵뢶뢷뢸뢹뢺뢻뢼뢽뢾뢿룀룁룂룃룄룅룆룇룈룉룊룋료룍룎룏룐룑룒룓룔룕룖룗룘룙룚룛룜룝룞룟룠룡룢룣룤룥룦룧루룩룪룫룬룭룮룯룰룱룲룳룴룵룶룷룸룹룺룻룼룽룾룿",
  "릀릁릂릃름릅릆릇릈릉릊릋릌릍릎릏릐릑릒릓릔릕릖릗릘릙릚릛릜릝릞릟릠릡릢릣릤릥릦릧릨릩릪릫리릭릮릯린릱릲릳릴릵릶릷릸릹릺릻림립릾릿맀링맂맃맄맅맆맇마막맊맋만맍많맏말맑맒맓맔맕맖맗맘맙맚맛맜망맞맟맠맡맢맣매맥맦맧맨맩맪맫맬맭맮맯맰맱맲맳맴맵맶맷맸맹맺맻맼맽맾맿",
  "몀몁몂몃몄명몆몇몈몉몊몋몌몍몎몏몐몑몒몓몔몕몖몗몘몙몚몛몜몝몞몟몠몡몢몣몤몥몦몧모목몪몫몬몭몮몯몰몱몲몳몴몵몶몷몸몹몺못몼몽몾몿뫀뫁뫂뫃뫄뫅뫆뫇뫈뫉뫊뫋뫌뫍뫎뫏뫐뫑뫒뫓뫔뫕뫖뫗뫘뫙뫚뫛뫜뫝뫞뫟뫠뫡뫢뫣뫤뫥뫦뫧뫨뫩뫪뫫뫬뫭뫮뫯뫰뫱뫲뫳뫴뫵뫶뫷뫸뫹뫺뫻뫼뫽뫾뫿",
  "뮀뮁뮂뮃뮄뮅뮆뮇뮈뮉뮊뮋뮌뮍뮎뮏뮐뮑뮒뮓뮔뮕뮖뮗뮘뮙뮚뮛뮜뮝뮞뮟뮠뮡뮢뮣뮤뮥뮦뮧뮨뮩뮪뮫뮬뮭뮮뮯뮰뮱뮲뮳뮴뮵뮶뮷뮸뮹뮺뮻뮼뮽뮾뮿므믁믂믃믄믅믆믇믈믉믊믋믌믍믎믏믐믑믒믓믔믕믖믗믘믙믚믛믜믝믞믟믠믡믢믣믤믥믦믧믨믩믪믫믬믭믮믯믰믱믲믳믴믵믶믷미믹믺믻민믽믾믿",
  "벀벁벂벃버벅벆벇번벉벊벋벌벍벎벏벐벑벒벓범법벖벗벘벙벚벛벜벝벞벟베벡벢벣벤벥벦벧벨벩벪벫벬벭벮벯벰벱벲벳벴벵벶벷벸벹벺벻벼벽벾벿변볁볂볃별볅볆볇볈볉볊볋볌볍볎볏볐병볒볓볔볕볖볗볘볙볚볛볜볝볞볟볠볡볢볣볤볥볦볧볨볩볪볫볬볭볮볯볰볱볲볳보복볶볷본볹볺볻볼볽볾볿",
  "부북붂붃분붅붆붇불붉붊붋붌붍붎붏붐붑붒붓붔붕붖붗붘붙붚붛붜붝붞붟붠붡붢붣붤붥붦붧붨붩붪붫붬붭붮붯붰붱붲붳붴붵붶붷붸붹붺붻붼붽붾붿뷀뷁뷂뷃뷄뷅뷆뷇뷈뷉뷊뷋뷌뷍뷎뷏뷐뷑뷒뷓뷔뷕뷖뷗뷘뷙뷚뷛뷜뷝뷞뷟뷠뷡뷢뷣뷤뷥뷦뷧뷨뷩뷪뷫뷬뷭뷮뷯뷰뷱뷲뷳뷴뷵뷶뷷뷸뷹뷺뷻뷼뷽뷾뷿",
  "뺀뺁뺂뺃뺄뺅뺆뺇뺈뺉뺊뺋뺌뺍뺎뺏뺐뺑뺒뺓뺔뺕뺖뺗뺘뺙뺚뺛뺜뺝뺞뺟뺠뺡뺢뺣뺤뺥뺦뺧뺨뺩뺪뺫뺬뺭뺮뺯뺰뺱뺲뺳뺴뺵뺶뺷뺸뺹뺺뺻뺼뺽뺾뺿뻀뻁뻂뻃뻄뻅뻆뻇뻈뻉뻊뻋뻌뻍뻎뻏뻐뻑뻒뻓뻔뻕뻖뻗뻘뻙뻚뻛뻜뻝뻞뻟뻠뻡뻢뻣뻤뻥뻦뻧뻨뻩뻪뻫뻬뻭뻮뻯뻰뻱뻲뻳뻴뻵뻶뻷뻸뻹뻺뻻뻼뻽뻾뻿",
  "뾀뾁뾂뾃뾄뾅뾆뾇뾈뾉뾊뾋뾌뾍뾎뾏뾐뾑뾒뾓뾔뾕뾖뾗뾘뾙뾚뾛뾜뾝뾞뾟뾠뾡뾢뾣뾤뾥뾦뾧뾨뾩뾪뾫뾬뾭뾮뾯뾰뾱뾲뾳뾴뾵뾶뾷뾸뾹뾺뾻뾼뾽뾾뾿뿀뿁뿂뿃뿄뿅뿆뿇뿈뿉뿊뿋뿌뿍뿎뿏뿐뿑뿒뿓뿔뿕뿖뿗뿘뿙뿚뿛뿜뿝뿞뿟뿠뿡뿢뿣뿤뿥뿦뿧뿨뿩뿪뿫뿬뿭뿮뿯뿰뿱뿲뿳뿴뿵뿶뿷뿸뿹뿺뿻뿼뿽뿾뿿",
  "삀삁삂삃삄삅삆삇삈삉삊삋삌삍삎삏삐삑삒삓삔삕삖삗삘삙삚삛삜삝삞삟삠삡삢삣삤삥삦삧삨삩삪삫사삭삮삯산삱삲삳살삵삶삷삸삹삺삻삼삽삾삿샀상샂샃샄샅샆샇새색샊샋샌샍샎샏샐샑샒샓샔샕샖샗샘샙샚샛샜생샞샟샠샡샢샣샤샥샦샧샨샩샪샫샬샭샮샯샰샱샲샳샴샵샶샷샸샹샺샻샼샽샾샿",
  "솀솁솂솃솄솅솆솇솈솉솊솋소속솎솏손솑솒솓솔솕솖솗솘솙솚솛솜솝솞솟솠송솢솣솤솥솦솧솨솩솪솫솬솭솮솯솰솱솲솳솴솵솶솷솸솹솺솻솼솽솾솿쇀쇁쇂쇃쇄쇅쇆쇇쇈쇉쇊쇋쇌쇍쇎쇏쇐쇑쇒쇓쇔쇕쇖쇗쇘쇙쇚쇛쇜쇝쇞쇟쇠쇡쇢쇣쇤쇥쇦쇧쇨쇩쇪쇫쇬쇭쇮쇯쇰쇱쇲쇳쇴쇵쇶쇷쇸쇹쇺쇻쇼쇽쇾쇿",
  "슀슁슂슃슄슅슆슇슈슉슊슋슌슍슎슏슐슑슒슓슔슕슖슗슘슙슚슛슜슝슞슟슠슡슢슣스슥슦슧슨슩슪슫슬슭슮슯슰슱슲슳슴습슶슷슸승슺슻슼슽슾슿싀싁싂싃싄싅싆싇싈싉싊싋싌싍싎싏싐싑싒싓싔싕싖싗싘싙싚싛시식싞싟신싡싢싣실싥싦싧싨싩싪싫심십싮싯싰싱싲싳싴싵싶싷싸싹싺싻싼싽싾싿",
  "쎀쎁쎂쎃쎄쎅쎆쎇쎈쎉쎊쎋쎌쎍쎎쎏쎐쎑쎒쎓쎔쎕쎖쎗쎘쎙쎚쎛쎜쎝쎞쎟쎠쎡쎢쎣쎤쎥쎦쎧쎨쎩쎪쎫쎬쎭쎮쎯쎰쎱쎲쎳쎴쎵쎶쎷쎸쎹쎺쎻쎼쎽쎾쎿쏀쏁쏂쏃쏄쏅쏆쏇쏈쏉쏊쏋쏌쏍쏎쏏쏐쏑쏒쏓쏔쏕쏖쏗쏘쏙쏚쏛쏜쏝쏞쏟쏠쏡쏢쏣쏤쏥쏦쏧쏨쏩쏪쏫쏬쏭쏮쏯쏰쏱쏲쏳쏴쏵쏶쏷쏸쏹쏺쏻쏼쏽쏾쏿",
  "쒀쒁쒂쒃쒄쒅쒆쒇쒈쒉쒊쒋쒌쒍쒎쒏쒐쒑쒒쒓쒔쒕쒖쒗쒘쒙쒚쒛쒜쒝쒞쒟쒠쒡쒢쒣쒤쒥쒦쒧쒨쒩쒪쒫쒬쒭쒮쒯쒰쒱쒲쒳쒴쒵쒶쒷쒸쒹쒺쒻쒼쒽쒾쒿쓀쓁쓂쓃쓄쓅쓆쓇쓈쓉쓊쓋쓌쓍쓎쓏쓐쓑쓒쓓쓔쓕쓖쓗쓘쓙쓚쓛쓜쓝쓞쓟쓠쓡쓢쓣쓤쓥쓦쓧쓨쓩쓪쓫쓬쓭쓮쓯쓰쓱쓲쓳쓴쓵쓶쓷쓸쓹쓺쓻쓼쓽쓾쓿",
  "얀얁얂얃얄얅얆얇얈얉얊얋얌얍얎얏얐양얒얓얔얕얖얗얘얙얚얛얜얝얞얟얠얡얢얣얤얥얦얧얨얩얪얫얬얭얮얯얰얱얲얳어억얶얷언얹얺얻얼얽얾얿엀엁엂엃엄업없엇었엉엊엋엌엍엎엏에엑엒엓엔엕엖엗엘엙엚엛엜엝엞엟엠엡엢엣엤엥엦엧엨엩엪엫여역엮엯연엱엲엳열엵엶엷엸엹엺엻염엽엾엿",
  "욀욁욂욃욄욅욆욇욈욉욊욋욌욍욎욏욐욑욒욓요욕욖욗욘욙욚욛욜욝욞욟욠욡욢욣욤욥욦욧욨용욪욫욬욭욮욯우욱욲욳운욵욶욷울욹욺욻욼욽욾욿움웁웂웃웄웅웆웇웈웉웊웋워웍웎웏원웑웒웓월웕웖웗웘웙웚웛웜웝웞웟웠웡웢웣웤웥웦웧웨웩웪웫웬웭웮웯웰웱웲웳웴웵웶웷웸웹웺웻웼웽웾웿",
  "잀잁잂잃임입잆잇있잉잊잋잌잍잎잏자작잒잓잔잕잖잗잘잙잚잛잜잝잞잟잠잡잢잣잤장잦잧잨잩잪잫재잭잮잯잰잱잲잳잴잵잶잷잸잹잺잻잼잽잾잿쟀쟁쟂쟃쟄쟅쟆쟇쟈쟉쟊쟋쟌쟍쟎쟏쟐쟑쟒쟓쟔쟕쟖쟗쟘쟙쟚쟛쟜쟝쟞쟟쟠쟡쟢쟣쟤쟥쟦쟧쟨쟩쟪쟫쟬쟭쟮쟯쟰쟱쟲쟳쟴쟵쟶쟷쟸쟹쟺쟻쟼쟽쟾쟿",
  "좀좁좂좃좄종좆좇좈좉좊좋좌좍좎좏좐좑좒좓좔좕좖좗좘좙좚좛좜좝좞좟좠좡좢좣좤좥좦좧좨좩좪좫좬좭좮좯좰좱좲좳좴좵좶좷좸좹좺좻좼좽좾좿죀죁죂죃죄죅죆죇죈죉죊죋죌죍죎죏죐죑죒죓죔죕죖죗죘죙죚죛죜죝죞죟죠죡죢죣죤죥죦죧죨죩죪죫죬죭죮죯죰죱죲죳죴죵죶죷죸죹죺죻주죽죾죿",
  "즀즁즂즃즄즅즆즇즈즉즊즋즌즍즎즏즐즑즒즓즔즕즖즗즘즙즚즛즜증즞즟즠즡즢즣즤즥즦즧즨즩즪즫즬즭즮즯즰즱즲즳즴즵즶즷즸즹즺즻즼즽즾즿지직짂짃진짅짆짇질짉짊짋짌짍짎짏짐집짒짓짔징짖짗짘짙짚짛짜짝짞짟짠짡짢짣짤짥짦짧짨짩짪짫짬짭짮짯짰짱짲짳짴짵짶짷째짹짺짻짼짽짾짿",
  "쪀쪁쪂쪃쪄쪅쪆쪇쪈쪉쪊쪋쪌쪍쪎쪏쪐쪑쪒쪓쪔쪕쪖쪗쪘쪙쪚쪛쪜쪝쪞쪟쪠쪡쪢쪣쪤쪥쪦쪧쪨쪩쪪쪫쪬쪭쪮쪯쪰쪱쪲쪳쪴쪵쪶쪷쪸쪹쪺쪻쪼쪽쪾쪿쫀쫁쫂쫃쫄쫅쫆쫇쫈쫉쫊쫋쫌쫍쫎쫏쫐쫑쫒쫓쫔쫕쫖쫗쫘쫙쫚쫛쫜쫝쫞쫟쫠쫡쫢쫣쫤쫥쫦쫧쫨쫩쫪쫫쫬쫭쫮쫯쫰쫱쫲쫳쫴쫵쫶쫷쫸쫹쫺쫻쫼쫽쫾쫿",
  "쮀쮁쮂쮃쮄쮅쮆쮇쮈쮉쮊쮋쮌쮍쮎쮏쮐쮑쮒쮓쮔쮕쮖쮗쮘쮙쮚쮛쮜쮝쮞쮟쮠쮡쮢쮣쮤쮥쮦쮧쮨쮩쮪쮫쮬쮭쮮쮯쮰쮱쮲쮳쮴쮵쮶쮷쮸쮹쮺쮻쮼쮽쮾쮿쯀쯁쯂쯃쯄쯅쯆쯇쯈쯉쯊쯋쯌쯍쯎쯏쯐쯑쯒쯓쯔쯕쯖쯗쯘쯙쯚쯛쯜쯝쯞쯟쯠쯡쯢쯣쯤쯥쯦쯧쯨쯩쯪쯫쯬쯭쯮쯯쯰쯱쯲쯳쯴쯵쯶쯷쯸쯹쯺쯻쯼쯽쯾쯿",
  "첀첁첂첃첄첅첆첇첈첉첊첋첌첍첎첏첐첑첒첓첔첕첖첗처척첚첛천첝첞첟철첡첢첣첤첥첦첧첨첩첪첫첬청첮첯첰첱첲첳체첵첶첷첸첹첺첻첼첽첾첿쳀쳁쳂쳃쳄쳅쳆쳇쳈쳉쳊쳋쳌쳍쳎쳏쳐쳑쳒쳓쳔쳕쳖쳗쳘쳙쳚쳛쳜쳝쳞쳟쳠쳡쳢쳣쳤쳥쳦쳧쳨쳩쳪쳫쳬쳭쳮쳯쳰쳱쳲쳳쳴쳵쳶쳷쳸쳹쳺쳻쳼쳽쳾쳿",
  "춀춁춂춃춄춅춆춇춈춉춊춋춌춍춎춏춐춑춒춓추축춖춗춘춙춚춛출춝춞춟춠춡춢춣춤춥춦춧춨충춪춫춬춭춮춯춰춱춲춳춴춵춶춷춸춹춺춻춼춽춾춿췀췁췂췃췄췅췆췇췈췉췊췋췌췍췎췏췐췑췒췓췔췕췖췗췘췙췚췛췜췝췞췟췠췡췢췣췤췥췦췧취췩췪췫췬췭췮췯췰췱췲췳췴췵췶췷췸췹췺췻췼췽췾췿",
  "캀캁캂캃캄캅캆캇캈캉캊캋캌캍캎캏캐캑캒캓캔캕캖캗캘캙캚캛캜캝캞캟캠캡캢캣캤캥캦캧캨캩캪캫캬캭캮캯캰캱캲캳캴캵캶캷캸캹캺캻캼캽캾캿컀컁컂컃컄컅컆컇컈컉컊컋컌컍컎컏컐컑컒컓컔컕컖컗컘컙컚컛컜컝컞컟컠컡컢컣커컥컦컧컨컩컪컫컬컭컮컯컰컱컲컳컴컵컶컷컸컹컺컻컼컽컾컿",
  "쾀쾁쾂쾃쾄쾅쾆쾇쾈쾉쾊쾋쾌쾍쾎쾏쾐쾑쾒쾓쾔쾕쾖쾗쾘쾙쾚쾛쾜쾝쾞쾟쾠쾡쾢쾣쾤쾥쾦쾧쾨쾩쾪쾫쾬쾭쾮쾯쾰쾱쾲쾳쾴쾵쾶쾷쾸쾹쾺쾻쾼쾽쾾쾿쿀쿁쿂쿃쿄쿅쿆쿇쿈쿉쿊쿋쿌쿍쿎쿏쿐쿑쿒쿓쿔쿕쿖쿗쿘쿙쿚쿛쿜쿝쿞쿟쿠쿡쿢쿣쿤쿥쿦쿧쿨쿩쿪쿫쿬쿭쿮쿯쿰쿱쿲쿳쿴쿵쿶쿷쿸쿹쿺쿻쿼쿽쿾쿿",
  "킀킁킂킃킄킅킆킇킈킉킊킋킌킍킎킏킐킑킒킓킔킕킖킗킘킙킚킛킜킝킞킟킠킡킢킣키킥킦킧킨킩킪킫킬킭킮킯킰킱킲킳킴킵킶킷킸킹킺킻킼킽킾킿타탁탂탃탄탅탆탇탈탉탊탋탌탍탎탏탐탑탒탓탔탕탖탗탘탙탚탛태택탞탟탠탡탢탣탤탥탦탧탨탩탪탫탬탭탮탯탰탱탲탳탴탵탶탷탸탹탺탻탼탽탾탿",
  "톀톁톂톃톄톅톆톇톈톉톊톋톌톍톎톏톐톑톒톓톔톕톖톗톘톙톚톛톜톝톞톟토톡톢톣톤톥톦톧톨톩톪톫톬톭톮톯톰톱톲톳톴통톶톷톸톹톺톻톼톽톾톿퇀퇁퇂퇃퇄퇅퇆퇇퇈퇉퇊퇋퇌퇍퇎퇏퇐퇑퇒퇓퇔퇕퇖퇗퇘퇙퇚퇛퇜퇝퇞퇟퇠퇡퇢퇣퇤퇥퇦퇧퇨퇩퇪퇫퇬퇭퇮퇯퇰퇱퇲퇳퇴퇵퇶퇷퇸퇹퇺퇻퇼퇽퇾퇿",
  "튀튁튂튃튄튅튆튇튈튉튊튋튌튍튎튏튐튑튒튓튔튕튖튗튘튙튚튛튜튝튞튟튠튡튢튣튤튥튦튧튨튩튪튫튬튭튮튯튰튱튲튳튴튵튶튷트특튺튻튼튽튾튿틀틁틂틃틄틅틆틇틈틉틊틋틌틍틎틏틐틑틒틓틔틕틖틗틘틙틚틛틜틝틞틟틠틡틢틣틤틥틦틧틨틩틪틫틬틭틮틯티틱틲틳틴틵틶틷틸틹틺틻틼틽틾틿",
  "펀펁펂펃펄펅펆펇펈펉펊펋펌펍펎펏펐펑펒펓펔펕펖펗페펙펚펛펜펝펞펟펠펡펢펣펤펥펦펧펨펩펪펫펬펭펮펯펰펱펲펳펴펵펶펷편펹펺펻펼펽펾펿폀폁폂폃폄폅폆폇폈평폊폋폌폍폎폏폐폑폒폓폔폕폖폗폘폙폚폛폜폝폞폟폠폡폢폣폤폥폦폧폨폩폪폫포폭폮폯폰폱폲폳폴폵폶폷폸폹폺폻폼폽폾폿",
  "풀풁풂풃풄풅풆풇품풉풊풋풌풍풎풏풐풑풒풓풔풕풖풗풘풙풚풛풜풝풞풟풠풡풢풣풤풥풦풧풨풩풪풫풬풭풮풯풰풱풲풳풴풵풶풷풸풹풺풻풼풽풾풿퓀퓁퓂퓃퓄퓅퓆퓇퓈퓉퓊퓋퓌퓍퓎퓏퓐퓑퓒퓓퓔퓕퓖퓗퓘퓙퓚퓛퓜퓝퓞퓟퓠퓡퓢퓣퓤퓥퓦퓧퓨퓩퓪퓫퓬퓭퓮퓯퓰퓱퓲퓳퓴퓵퓶퓷퓸퓹퓺퓻퓼퓽퓾퓿",
  "햀햁햂햃햄햅햆햇했행햊햋햌햍햎햏햐햑햒햓햔햕햖햗햘햙햚햛햜햝햞햟햠햡햢햣햤향햦햧햨햩햪햫햬햭햮햯햰햱햲햳햴햵햶햷햸햹햺햻햼햽햾햿헀헁헂헃헄헅헆헇허헉헊헋헌헍헎헏헐헑헒헓헔헕헖헗험헙헚헛헜헝헞헟헠헡헢헣헤헥헦헧헨헩헪헫헬헭헮헯헰헱헲헳헴헵헶헷헸헹헺헻헼헽헾헿",
  "횀횁횂횃횄횅횆횇횈횉횊횋회획횎횏횐횑횒횓횔횕횖횗횘횙횚횛횜횝횞횟횠횡횢횣횤횥횦횧효횩횪횫횬횭횮횯횰횱횲횳횴횵횶횷횸횹횺횻횼횽횾횿훀훁훂훃후훅훆훇훈훉훊훋훌훍훎훏훐훑훒훓훔훕훖훗훘훙훚훛훜훝훞훟훠훡훢훣훤훥훦훧훨훩훪훫훬훭훮훯훰훱훲훳훴훵훶훷훸훹훺훻훼훽훾훿",
  "힀힁힂힃힄힅힆힇히힉힊힋힌힍힎힏힐힑힒힓힔힕힖힗힘힙힚힛힜힝힞힟힠힡힢힣힤힥힦힧힨힩힪힫힬힭힮힯ힰힱힲힳힴힵힶힷힸힹힺힻힼힽힾힿퟀퟁퟂퟃퟄퟅퟆ퟇퟈퟉퟊ퟋퟌퟍퟎퟏퟐퟑퟒퟓퟔퟕퟖퟗퟘퟙퟚퟛퟜퟝퟞퟟퟠퟡퟢퟣퟤퟥퟦퟧퟨퟩퟪퟫퟬퟭퟮퟯퟰퟱퟲퟳퟴퟵퟶퟷퟸퟹퟺퟻ퟼퟽퟾퟿",
  "",
  "",
  "",
  "",
  "",
  "",
  "",
  "",
  "",
  "",
  "",
  "",
  "",
  "",
  "",
  "",
  "",
  "",
  "",
  "",
  "",
  "",
  "",
  "",
  "",
  "",
  "",
  "",
  "",
  "",
  "",
  "",
  "",
  "呂女廬旅濾礪閭驪麗黎力曆歷轢年憐戀撚漣煉璉秊練聯輦蓮連鍊列劣咽烈裂說廉念捻殮簾獵令囹寧嶺怜玲瑩羚聆鈴零靈領例禮醴隸惡了僚寮尿料樂燎療蓼遼龍暈阮劉杻柳流溜琉留硫紐類六戮陸倫崙淪輪律慄栗率隆利吏履易李梨泥理痢罹裏裡里離匿溺吝燐璘藺隣鱗麟林淋臨立笠粒狀炙識什茶刺",
  "婢嬨廒廙彩徭惘慎愈憎慠懲戴揄搜摒敖晴朗望杖歹殺流滛滋漢瀞煮瞧爵犯猪瑱甆画瘝瘟益盛直睊着磌窱節类絛練缾者荒華蝹襁覆視調諸請謁諾諭謹變贈輸遲醙鉶陼難靖韛響頋頻鬒龜𢡊𢡄𣏕㮝䀘䀹𥉉𥳐𧻓齃龎﫚﫛﫜﫝﫞﫟﫠﫡﫢﫣﫤﫥﫦﫧﫨﫩﫪﫫﫬﫭﫮﫯﫰﫱﫲﫳﫴﫵﫶﫷﫸﫹﫺﫻﫼﫽﫾﫿",
  "ﮀﮁﮂﮃﮄﮅﮆﮇﮈﮉﮊﮋﮌﮍﮎﮏﮐﮑﮒﮓﮔﮕﮖﮗﮘﮙﮚﮛﮜﮝﮞﮟﮠﮡﮢﮣﮤﮥﮦﮧﮨﮩﮪﮫﮬﮭﮮﮯﮰﮱ﮲﮳﮴﮵﮶﮷﮸﮹﮺﮻﮼﮽﮾﮿﯀﯁﯂﯃﯄﯅﯆﯇﯈﯉﯊﯋﯌﯍﯎﯏﯐﯑﯒ﯓﯔﯕﯖﯗﯘﯙﯚﯛﯜﯝﯞﯟﯠﯡﯢﯣﯤﯥﯦﯧﯨﯩﯪﯫﯬﯭﯮﯯﯰﯱﯲﯳﯴﯵﯶﯷﯸﯹﯺﯻﯼﯽﯾﯿ",
  "ﲀﲁﲂﲃﲄﲅﲆﲇﲈﲉﲊﲋﲌﲍﲎﲏﲐﲑﲒﲓﲔﲕﲖﲗﲘﲙﲚﲛﲜﲝﲞﲟﲠﲡﲢﲣﲤﲥﲦﲧﲨﲩﲪﲫﲬﲭﲮﲯﲰﲱﲲﲳﲴﲵﲶﲷﲸﲹﲺﲻﲼﲽﲾﲿﳀﳁﳂﳃﳄﳅﳆﳇﳈﳉﳊﳋﳌﳍﳎﳏﳐﳑﳒﳓﳔﳕﳖﳗﳘﳙﳚﳛﳜﳝﳞﳟﳠﳡﳢﳣﳤﳥﳦﳧﳨﳩﳪﳫﳬﳭﳮﳯﳰﳱﳲﳳﳴﳵﳶﳷﳸﳹﳺﳻﳼﳽﳾﳿ",
  "ﶀﶁﶂﶃﶄﶅﶆﶇﶈﶉﶊﶋﶌﶍﶎﶏ﶐﶑ﶒﶓﶔﶕﶖﶗﶘﶙﶚﶛﶜﶝﶞﶟﶠﶡﶢﶣﶤﶥﶦﶧﶨﶩﶪﶫﶬﶭﶮﶯﶰﶱﶲﶳﶴﶵﶶﶷﶸﶹﶺﶻﶼﶽﶾﶿﷀﷁﷂﷃﷄﷅﷆﷇ﷈﷉﷊﷋﷌﷍﷎﷏﷐﷑﷒﷓﷔﷕﷖﷗﷘﷙﷚﷛﷜﷝﷞﷟﷠﷡﷢﷣﷤﷥﷦﷧﷨﷩﷪﷫﷬﷭﷮﷯ﷰﷱﷲﷳﷴﷵﷶﷷﷸﷹﷺﷻ﷼﷽﷾﷿",
  "ﺀﺁﺂﺃﺄﺅﺆﺇﺈﺉﺊﺋﺌﺍﺎﺏﺐﺑﺒﺓﺔﺕﺖﺗﺘﺙﺚﺛﺜﺝﺞﺟﺠﺡﺢﺣﺤﺥﺦﺧﺨﺩﺪﺫﺬﺭﺮﺯﺰﺱﺲﺳﺴﺵﺶﺷﺸﺹﺺﺻﺼﺽﺾﺿﻀﻁﻂﻃﻄﻅﻆﻇﻈﻉﻊﻋﻌﻍﻎﻏﻐﻑﻒﻓﻔﻕﻖﻗﻘﻙﻚﻛﻜﻝﻞﻟﻠﻡﻢﻣﻤﻥﻦﻧﻨﻩﻪﻫﻬﻭﻮﻯﻰﻱﻲﻳﻴﻵﻶﻷﻸﻹﻺﻻﻼ﻽﻾﻿",
  "ﾀﾁﾂﾃﾄﾅﾆﾇﾈﾉﾊﾋﾌﾍﾎﾏﾐﾑﾒﾓﾔﾕﾖﾗﾘﾙﾚﾛﾜﾝﾞﾟﾠﾡﾢﾣﾤﾥﾦﾧﾨﾩﾪﾫﾬﾭﾮﾯﾰﾱﾲﾳﾴﾵﾶﾷﾸﾹﾺﾻﾼﾽﾾ﾿￀￁ￂￃￄￅￆￇ￈￉ￊￋￌￍￎￏ￐￑ￒￓￔￕￖￗ￘￙ￚￛￜ￝￞￟￠￡￢￣￤￥￦￧￨￩￪￫￬￭￮￯￰￱￲￳￴￵￶￷￸￹￺￻￼�" >>

CodedUnit(code) ==
  "\\u" \o HexDigits[(code \div 4096) + 1] \o HexDigits[((code \div 256) % 16) + 1]
        \o HexDigits[((code \div 16) % 16) + 1] \o HexDigits[(code % 16) + 1]

UnitOfCode(code) ==
  IF code < 256 THEN LowUnits[code + 1]
  ELSE IF code % 256 >= 128 /\ code < 65534 /\ RawBlocks[code \div 256] # ""
  THEN SubSeq(RawBlocks[code \div 256], (code % 256) - 127, (code % 256) - 127)
  ELSE CodedUnit(code)

\* the escapes of one character, and what each stands for
SimpleEscapes == {Quote, "\\", "/", "b", "f", "n", "r", "t"}

Unescaped(c) ==
  CASE c = "b" -> "\\u0008"
    [] c = "f" -> "\f"
    [] c = "n" -> "\n"
    [] c = "r" -> "\r"
    [] c = "t" -> "\t"
    [] OTHER   -> c

\* the string whose opening quote is before i: up to the closing quote, with
\* every escape replaced by the code unit it stands for
RECURSIVE StringFrom(_, _, _)

Escape(s, i, acc) ==
  IF CharAt(s, i) \in SimpleEscapes
  THEN StringFrom(s, i + 1, Append(acc, Unescaped(s[i])))
  ELSE IF CharAt(s, i) = "u" /\ HasHex4(s, i + 1)
  THEN StringFrom(s, i + 5, Append(acc, UnitOfCode(CodeOf(s, i + 1))))
  ELSE Fail

StringFrom(s, i, acc) ==
  IF i > Len(s) \/ s[i] \in ControlChars THEN Fail
  ELSE IF s[i] = Quote THEN Parsed(JString(acc), i + 1)
  ELSE IF s[i] = "\\" THEN Escape(s, i + 1, acc)
  ELSE StringFrom(s, i + 1, Append(acc, s[i]))

ParseString(s, i) == StringFrom(s, i + 1, <<>>)

\* the member key: val of an object text: a repeated key keeps its place and
\* takes the later value, and __proto__ is a key like any other
SetEntry(entries, key, val) == PutOwn(entries, Entry(key, val))

RECURSIVE ParseValue(_, _)
RECURSIVE ParseElements(_, _, _)
RECURSIVE ParseMembers(_, _, _)

ElementSep(s, j, acc) ==
  IF CharAt(s, j) = "," THEN ParseElements(s, j + 1, acc)
  ELSE IF CharAt(s, j) = "]" THEN Parsed(JArray(acc), j + 1)
  ELSE Fail

ElementParsed(s, r, acc) ==
  IF r.ok THEN ElementSep(s, SkipWs(s, r.next), Append(acc, r.val)) ELSE Fail

ParseElements(s, i, acc) == ElementParsed(s, ParseValue(s, i), acc)

ArrayFrom(s, j) ==
  IF CharAt(s, j) = "]" THEN Parsed(JArray(<<>>), j + 1)
  ELSE ParseElements(s, j, <<>>)

MemberSep(s, j, acc) ==
  IF CharAt(s, j) = "," THEN ParseMembers(s, SkipWs(s, j + 1), acc)
  ELSE IF CharAt(s, j) = "}" THEN Parsed(JObject(acc), j + 1)
  ELSE Fail

MemberValue(s, key, r, acc) ==
  IF r.ok THEN MemberSep(s, SkipWs(s, r.next), SetEntry(acc, key, r.val)) ELSE Fail

MemberColon(s, key, j, acc) ==
  IF CharAt(s, j) = ":" THEN MemberValue(s, key, ParseValue(s, j + 1), acc)
  ELSE Fail

MemberKey(s, k, acc) ==
  IF k.ok THEN MemberColon(s, k.val.s, SkipWs(s, k.next), acc) ELSE Fail

ParseMembers(s, i, acc) ==
  IF CharAt(s, i) = Quote THEN MemberKey(s, ParseString(s, i), acc) ELSE Fail

ObjectFrom(s, j) ==
  IF CharAt(s, j) = "}" THEN Parsed(JObject(<<>>), j + 1)
  ELSE ParseMembers(s, j, <<>>)

ParseAt(s, i) ==
  CASE CharAt(s, i) = "n"   -> Literal(s, i, <<"n","u","l","l">>, JNull)
    [] CharAt(s, i) = "t"   -> Literal(s, i, <<"t","r","u","e">>, JBoolean)
    [] CharAt(s, i) = "f"   -> Literal(s, i, <<"f","a","l","s","e">>, JBoolean)
    [] CharAt(s, i) = Quote -> ParseString(s, i)
    [] CharAt(s, i) = "["   -> ArrayFrom(s, SkipWs(s, i + 1))
    [] CharAt(s, i) = "{"   -> ObjectFrom(s, SkipWs(s, i + 1))
    [] CharAt(s, i) = "-" \/ IsDigit(CharAt(s, i)) -> ParseNumber(s, i)
    [] OTHER                -> Fail

ParseValue(s, i) == ParseAt(s, SkipWs(s, i))

\* nothing but whitespace may follow the value
Complete(s, r) == IF r.ok /\ SkipWs(s, r.next) > Len(s) THEN r ELSE Fail

JSONParse(s) == Complete(s, ParseValue(s, 1))

SizeWarning ==
  Diagnostic("warning", "Large inputs may slow down the browser.", <<>>, <<>>)
ParsedInfo == Diagnostic("info", "JSON parsed successfully.", <<>>, <<>>)
\* the engine's own message and the location drawn from it are left out
ParseError == Diagnostic("error", "JSON parse error", <<>>, <<>>)

SizeDiagnostics(input) ==
  IF Len(input) > SIZE_LIMIT THEN <<SizeWarning>> ELSE <<>>

ParseResult(val, diags) == [value |-> val, diagnostics |-> diags]

\* the try and the catch around JSON.parse; a failure returns value: null
ParseOutcome(r, diags) ==
  IF r.ok THEN ParseResult(r.val, Append(diags, ParsedInfo))
  ELSE ParseResult(JNull, Append(diags, ParseError))

parseJSON(input) ==
  IF IsBlank(input) THEN ParseResult(JNull, <<>>)
  ELSE ParseOutcome(JSONParse(input), SizeDiagnostics(input))

----------------------------------------------------------------------------
(* lib/infer/naming.ts: the key helpers of the generators *)

\* str.replace(/_([a-z])/g, (_, letter) => letter.toUpperCase())
RECURSIVE snakeToCamel(_)
snakeToCamel(str) ==
  IF Len(str) < 2 THEN str
  ELSE IF str[1] = "_" /\ IsLower(str[2])
       THEN toUpperCase(<<str[2]>>) \o snakeToCamel(SubSeq(str, 3, Len(str)))
       ELSE <<str[1]>> \o snakeToCamel(Tail(str))

\* /^[a-z][a-z0-9]*(_[a-z0-9]+)+$/.test(str)
isSnakeCase(str) ==
  /\ Len(str) >= 1
  /\ IsLower(str[1])
  /\ \A i \in 1..Len(str) : IsLower(str[i]) \/ IsDigit(str[i]) \/ str[i] = "_"
  /\ \E i \in 1..Len(str) : str[i] = "_"
  /\ \A i \in 1..Len(str) :
       str[i] = "_" => (i < Len(str) /\ str[i + 1] # "_")

----------------------------------------------------------------------------
(* lib/generate/formatter.ts and lib/generate/typescript.ts *)

\* Object.values(t.properties).map(prop => prop.type)
PropertyTypes(props) == [i \in 1..Len(props) |-> props[i].type]

\* collectObjects: the Object nodes in the order walk pushes them
RECURSIVE collectObjects(_)
RECURSIVE CollectAll(_)
CollectAll(types) ==
  IF types = <<>> THEN <<>>
  ELSE collectObjects(Head(types)) \o CollectAll(Tail(types))
collectObjects(type) ==
  CASE type.kind = "object" -> <<type>> \o CollectAll(PropertyTypes(type.properties))
    [] type.kind = "array"  -> collectObjects(type.elementType)
    [] type.kind = "union"  -> CollectAll(type.variants)
    [] OTHER                -> <<>>

\* a slip: the discovery order is kept
NotReversed(s) == s

\* [...objects].reverse()
Reverse(s) == [i \in 1..Len(s) |-> s[Len(s) + 1 - i]]

\* what a function returns that ends without a return statement: undefined,
\* which a template literal writes as the word and join as nothing
NoString == <<"undefined">>
Interpolated(str) == IF str = NoString THEN Chars("undefined") ELSE str
JoinedItem(str)   == IF str = NoString THEN <<>> ELSE str

\* a slip: the brackets are appended to the bare rendering of a union
UnwrappedArray(inner, elementKind) == Interpolated(inner) \o Chars("[]")

\* the array case of typeToTS after the element is rendered
ArrayOfRendered(inner, elementKind) ==
  IF elementKind = "union" THEN Chars("(") \o Interpolated(inner) \o Chars(")[]")
  ELSE Interpolated(inner) \o Chars("[]")

RECURSIVE typeToTS(_, _)
RECURSIVE VariantsToTS(_, _)
VariantsToTS(variants, st) ==
  [i \in 1..Len(variants) |-> JoinedItem(typeToTS(variants[i], st))]
typeToTS(type, st) ==
  CASE type.kind = "primitive"   -> Chars(type.type)
    [] type.kind = "unknown"     -> Chars("unknown")
    [] type.kind = "date-string" -> Chars("string")
    [] type.kind = "array"       ->
         ArrayOfRendered(typeToTS(type.elementType, st), type.elementType.kind)
    [] type.kind = "union"       -> Join(VariantsToTS(type.variants, st), Chars(" | "))
    [] type.kind = "object"      -> type.typeName
    [] OTHER                     -> NoString

\* a slip: the schema emitter's rule, the key as it is
KeyUnchanged(key, st) == key

\* tsKey of generateObjectDeclaration and of generateValue
TsKey(key, st) ==
  IF st.snakeToCamel /\ isSnakeCase(key) THEN snakeToCamel(key) ELSE key

\* the field line of one property
FieldLine(prop, st) ==
  Chars("  ") \o TsKey(prop.key, st) \o (IF prop.optional THEN Chars("?") ELSE <<>>)
  \o Chars(": ") \o Interpolated(typeToTS(prop.type, st))
  \o (IF prop.nullable THEN Chars(" | null") ELSE <<>>) \o Chars(";")

Fields(props, st) == [i \in 1..Len(props) |-> FieldLine(props[i], st)]

IsConverted(prop, st) == st.snakeToCamel /\ isSnakeCase(prop.key)

SnakeConversionLine(prop, st) ==
  Chars("  // \"") \o snakeToCamel(prop.key)
  \o Chars("\" maps to JSON key \"") \o prop.key \o Chars("\"")

\* snakeConversions, one line per converted key
RECURSIVE SnakeConversions(_, _)
SnakeConversions(props, st) ==
  IF props = <<>> THEN <<>>
  ELSE (IF IsConverted(Head(props), st)
        THEN <<SnakeConversionLine(Head(props), st)>> ELSE <<>>)
       \o SnakeConversions(Tail(props), st)

CommentOf(conversions) ==
  IF Len(conversions) > 0
  THEN Chars("/**\n") \o Join(conversions, Chars("\n")) \o Chars("\n */\n")
  ELSE <<>>

generateObjectDeclaration(obj, st) ==
  IF st.outputStyle = "interface"
  THEN CommentOf(SnakeConversions(obj.properties, st))
       \o Chars("export interface ") \o obj.typeName \o Chars(" {\n")
       \o Join(Fields(obj.properties, st), Chars("\n")) \o Chars("\n}")
  ELSE CommentOf(SnakeConversions(obj.properties, st))
       \o Chars("export type ") \o obj.typeName \o Chars(" = {\n")
       \o Join(Fields(obj.properties, st), Chars("\n")) \o Chars("\n};")

\* for (const obj of reversed) { lines.push(declaration); lines.push("") }
RECURSIVE DeclarationLines(_, _)
DeclarationLines(objects, st) ==
  IF objects = <<>> THEN <<>>
  ELSE <<generateObjectDeclaration(Head(objects), st), <<>>>>
       \o DeclarationLines(Tail(objects), st)

\* the root-level alias of an array: the brackets follow the element rendering
RootArrayAlias(type, st) ==
  Chars("export type ") \o st.rootTypeName \o Chars(" = ")
  \o Interpolated(typeToTS(type.elementType, st)) \o Chars("[];")

RootAlias(type, st) ==
  Chars("export type ") \o st.rootTypeName \o Chars(" = ")
  \o Interpolated(typeToTS(type, st)) \o Chars(";")

\* the lines generateTypeScript pushes
TypeScriptLines(type, st) ==
  CASE type.kind = "object" -> DeclarationLines(Reverse(collectObjects(type)), st)
    [] type.kind = "array"  ->
         DeclarationLines(Reverse(collectObjects(type)), st)
         \o <<RootArrayAlias(type, st), <<>>>>
    [] OTHER -> <<RootAlias(type, st), <<>>>>

\* lines.join("\n"), the text handed to formatTypeScript
RawTypeScript(type, st) == Join(TypeScriptLines(type, st), Chars("\n"))

(* formatTypeScript.  Prettier is a library outside this repository: the    *)
(* text it returns is not computed here.  A string a call returns is the     *)
(* record of the code handed to the formatter and of whether it comes back   *)
(* pretty-printed (formatted) or as it was.                                  *)
(*                                                                           *)
(* prettierPromise is the module-level cache of loadPrettier: "null" until   *)
(* the first call, then the promise of the three imports, "pending" until    *)
(* they settle and "fulfilled" or "rejected" from then on.  Nothing sets it  *)
(* back: a rejected load is the answer of every later call.                  *)
(*                                                                           *)
(* A call is followed from one event-loop task to the next.  Its record says *)
(* where the call stands (at: suspended at "loadPrettier" or at "format", or *)
(* past its "return"), what threw inside it (thrown), and the state of the   *)
(* promise it returned.                                                      *)
Text(code) == [code |-> code, formatted |-> FALSE]
PrettyText(code) == [code |-> code, formatted |-> TRUE]

Pending == [settled |-> "pending"]
Resolved(text) == [settled |-> "resolved", text |-> text]
Rejected(error) == [settled |-> "rejected", error |-> error]

\* loadPrettier: prettierPromise once the call has returned; the imports are
\* started when nothing is cached
loadPrettier(cache) == IF cache = "null" THEN "pending" ELSE cache

\* a slip: no catch clause, the exception escapes
Rethrown(code) == Rejected("Error")

\* catch { return code }
Caught(code) == Resolved(Text(code))

Suspended(code, at) ==
  [code |-> code, at |-> at, thrown |-> "nothing", promise |-> Pending]

Returned(code, thrown, promise) ==
  [code |-> code, at |-> "return", thrown |-> thrown, promise |-> promise]

\* the call past await loadPrettier(), settled being the state of the
\* awaited promise: prettier.format is called and awaited, or the rejection
\* is caught
AfterLoad(code, settled) ==
  IF settled = "fulfilled" THEN Suspended(code, "format")
  ELSE Returned(code, "loadPrettier", Caught(code))

\* the call past await prettier.format(...), formats being whether it
\* returned the text or threw
AfterFormat(code, formats) ==
  IF formats THEN Returned(code, "nothing", Resolved(PrettyText(code)))
  ELSE Returned(code, "format", Caught(code))

\* formatTypeScript(code) up to the end of the task that calls it, cache
\* being prettierPromise as the call finds it: the call waits as long as the
\* imports are pending, and goes on in a microtask when they have settled
formatTypeScript(code, cache) ==
  IF loadPrettier(cache) = "pending" THEN Suspended(code, "loadPrettier")
  ELSE AfterLoad(code, cache)

\* an async function whose body threw: the promise it returns is rejected,
\* and formatTypeScript was never called
Threw(error) == Returned(ThrownString, "generator", Rejected(error))

\* return formatTypeScript(raw), or the rejection when making raw threw
FormatRaw(raw, cache) ==
  IF raw = ThrownString THEN Threw("TypeError") ELSE formatTypeScript(raw, cache)

\* prettierPromise after a call that ended up as c
CacheAfter(c, cache) ==
  IF c.thrown = "generator" THEN cache ELSE loadPrettier(cache)

generateTypeScript(type, st, cache) == FormatRaw(RawTypeScript(type, st), cache)

----------------------------------------------------------------------------
(* lib/generate/zod.ts *)

\* typeName.charAt(0).toLowerCase() + typeName.slice(1) + "Schema"
toSchemaName(typeName) ==
  (IF typeName = <<>> THEN <<>>
   ELSE toLowerCase(<<typeName[1]>>) \o Tail(typeName)) \o Chars("Schema")

RECURSIVE typeToZod(_, _)
RECURSIVE VariantsToZod(_, _)
VariantsToZod(variants, st) ==
  [i \in 1..Len(variants) |-> typeToZod(variants[i], st)]
typeToZod(type, st) ==
  CASE type.kind = "primitive"   ->
         IF type.type \in {"string", "number", "boolean", "null"}
         THEN Chars("z.") \o Chars(type.type) \o Chars("()")
         ELSE Chars("z.unknown()")
    [] type.kind = "unknown"     -> Chars("z.unknown()")
    [] type.kind = "date-string" ->
         IF st.detectDates THEN Chars("z.string().datetime()") ELSE Chars("z.string()")
    [] type.kind = "array"       ->
         Chars("z.array(") \o typeToZod(type.elementType, st) \o Chars(")")
    [] type.kind = "union"       ->
         Chars("z.union([") \o Join(VariantsToZod(type.variants, st), Chars(", "))
         \o Chars("])")
    [] type.kind = "object"      -> toSchemaName(type.typeName)
    [] OTHER                     -> Chars("z.unknown()")

\* a slip: the declaration emitter's key rule applied to the schema
ZodKeyConverted(key, st) == TsKey(key, st)

\* the key of a schema field: the IR key, whatever the settings
ZodKey(key, st) == key

SchemaFieldLine(prop, st) ==
  Chars("  ") \o ZodKey(prop.key, st) \o Chars(": ") \o typeToZod(prop.type, st)
  \o (IF prop.nullable THEN Chars(".nullable()") ELSE <<>>)
  \o (IF prop.optional THEN Chars(".optional()") ELSE <<>>)
  \o Chars(",")

SchemaFields(props, st) == [i \in 1..Len(props) |-> SchemaFieldLine(props[i], st)]

generateObjectSchema(obj, st) ==
  Chars("export const ") \o toSchemaName(obj.typeName) \o Chars(" = z.object({\n")
  \o Join(SchemaFields(obj.properties, st), Chars("\n")) \o Chars("\n})")
  \o (IF st.strictObjects THEN Chars(".strict()") ELSE <<>>) \o Chars(";")

RECURSIVE SchemaLines(_, _)
SchemaLines(objects, st) ==
  IF objects = <<>> THEN <<>>
  ELSE <<generateObjectSchema(Head(objects), st), <<>>>>
       \o SchemaLines(Tail(objects), st)

InferredTypeExport(st) ==
  Chars("export type ") \o st.rootTypeName \o Chars(" = z.infer<typeof ")
  \o toSchemaName(st.rootTypeName) \o Chars(">;")

RootSchema(rendered, st) ==
  Chars("export const ") \o toSchemaName(st.rootTypeName) \o Chars(" = ")
  \o rendered \o Chars(";")

\* the lines generateZod pushes
ZodLines(type, st) ==
  <<Chars("import { z } from \"zod\";"), <<>>>> \o
  (CASE type.kind = "object" ->
          SchemaLines(Reverse(collectObjects(type)), st)
          \o <<InferredTypeExport(st), <<>>>>
     [] type.kind = "array"  ->
          SchemaLines(Reverse(collectObjects(type)), st)
          \o <<RootSchema(Chars("z.array(") \o typeToZod(type.elementType, st)
                          \o Chars(")"), st),
               <<>>, InferredTypeExport(st), <<>>>>
     [] OTHER ->
          <<RootSchema(typeToZod(type, st), st), <<>>, InferredTypeExport(st), <<>>>>)

RawZod(type, st) == Join(ZodLines(type, st), Chars("\n"))

generateZod(type, st, cache) == FormatRaw(RawZod(type, st), cache)

----------------------------------------------------------------------------
(* lib/generate/example.ts *)

\* "  ".repeat(indent)
RECURSIVE Pad(_)
Pad(indent) == IF indent = 0 THEN <<>> ELSE Chars("  ") \o Pad(indent - 1)

\* a slip: the first variant is taken, null or not
FirstVariant(variants) == IF variants = <<>> THEN JsUndefined ELSE variants[1]

\* type.variants.find(v => not null) ?? type.variants[0]: undefined when
\* there is no variant at all
FirstNonNull(variants) ==
  IF \E i \in 1..Len(variants) : ~IsNullType(variants[i])
  THEN variants[CHOOSE i \in 1..Len(variants) :
                  /\ ~IsNullType(variants[i])
                  /\ \A j \in 1..(i - 1) : IsNullType(variants[j])]
  ELSE IF variants = <<>> THEN JsUndefined
  ELSE variants[1]

\* [ inner ], once the element is rendered
ArrayValue(inner) ==
  IF inner = ThrownString THEN ThrownString
  ELSE Chars("[") \o inner \o Chars("]")

\* innerPad tsKey: val, once the value is rendered
FieldValue(key, val, st, indent) ==
  IF val = ThrownString THEN ThrownString
  ELSE Pad(indent + 1) \o TsKey(key, st) \o Chars(": ") \o val \o Chars(",")

\* the fields between braces, once every field is rendered; a field that
\* threw ends the map
ObjectValue(fields, indent) ==
  IF \E i \in 1..Len(fields) : fields[i] = ThrownString THEN ThrownString
  ELSE Chars("{\n") \o Join(fields, Chars("\n")) \o Chars("\n") \o Pad(indent)
       \o Chars("}")

RECURSIVE generateValue(_, _, _)
RECURSIVE ValueFields(_, _, _)
ValueFields(props, st, indent) ==
  [i \in 1..Len(props) |->
     FieldValue(props[i].key,
                IF props[i].nullable THEN Chars("null")
                ELSE generateValue(props[i].type, st, indent + 1),
                st, indent)]
generateValue(type, st, indent) ==
  IF type = JsUndefined THEN ThrownString
  ELSE
  CASE type.kind = "primitive" ->
         (CASE type.type = "string"  -> Chars("\"\"")
            [] type.type = "number"  -> Chars("0")
            [] type.type = "boolean" -> Chars("false")
            [] type.type = "null"    -> Chars("null")
            [] OTHER                 -> Chars("undefined"))
    [] type.kind = "unknown"     -> Chars("undefined")
    [] type.kind = "date-string" -> Chars("\"2025-01-01T00:00:00.000Z\"")
    [] type.kind = "array"       ->
         ArrayValue(generateValue(type.elementType, st, indent))
    [] type.kind = "union"       ->
         generateValue(FirstNonNull(type.variants), st, indent)
    [] type.kind = "object"      ->
         IF Len(type.properties) = 0 THEN Chars("{}")
         ELSE ObjectValue(ValueFields(type.properties, st, indent), indent)
    [] OTHER                     -> Chars("undefined")

\* the lines generateExample pushes, exampleValue being what generateValue
\* returned
ExampleLines(exampleValue, st) ==
  << Chars("// Import your generated types and schemas:"),
     Chars("// import type { ") \o st.rootTypeName \o Chars(" } from \"./types\";"),
     Chars("// import { ") \o toSchemaName(st.rootTypeName)
       \o Chars(" } from \"./schema\";"),
     <<>>,
     Chars("// Using TypeScript type directly:"),
     Chars("const example: ") \o st.rootTypeName \o Chars(" = ")
       \o exampleValue \o Chars(";"),
     <<>>,
     Chars("// Using Zod inferred type (equivalent):"),
     Chars("// type ") \o st.rootTypeName \o Chars("Inferred = z.infer<typeof ")
       \o toSchemaName(st.rootTypeName) \o Chars(">;"),
     <<>>,
     Chars("// Validating at runtime:"),
     Chars("// const parsed = ") \o toSchemaName(st.rootTypeName)
       \o Chars(".parse(example);"),
     Chars("// const safeParsed = ") \o toSchemaName(st.rootTypeName)
       \o Chars(".safeParse(example);"),
     <<>> >>

\* lines.join("\n"), or the TypeError generateValue threw
JoinedExample(exampleValue, st) ==
  IF exampleValue = ThrownString THEN ThrownString
  ELSE Join(ExampleLines(exampleValue, st), Chars("\n"))

\* the text generateExample hands to formatTypeScript, when it gets there
RawExample(type, st) == JoinedExample(generateValue(type, st, 0), st)

generateExample(type, st, cache) == FormatRaw(RawExample(type, st), cache)

----------------------------------------------------------------------------
(* hooks/useConverter.ts *)

\* the empty string
EmptyText == Text(<<>>)

EMPTY_RESULT ==
  [typescript |-> EmptyText, zod |-> EmptyText, example |-> EmptyText,
   diagnostics |-> <<>>, isValid |-> FALSE, fieldCount |-> 0,
   rootTypeName |-> RootName, isProcessing |-> FALSE]

InferSettingsOf(st) ==
  [rootTypeName |-> st.rootTypeName, detectDates |-> st.detectDates]

GenerateSettingsOf(st) ==
  [rootTypeName |-> st.rootTypeName, outputStyle |-> st.outputStyle,
   strictObjects |-> st.strictObjects, detectDates |-> st.detectDates,
   snakeToCamel |-> st.snakeToCamel]

\* setResult({...EMPTY_RESULT, diagnostics, isValid: false})
FailedResult(diags) == [EMPTY_RESULT EXCEPT !.diagnostics = diags]

\* the message of the error caught is left out
GenerationError == Diagnostic("error", "Code generation error", <<>>, <<>>)

\* a call among the calls made so far: the function called, the convert run
\* that called it (0 for a call made on its own), and the record of the call
Call(op, run, c) ==
  [op |-> op, run |-> run, code |-> c.code, at |-> c.at, thrown |-> c.thrown,
   promise |-> c.promise]

\* the same call further on
Moved(call, c) == Call(call.op, call.run, c)

\* the array handed to Promise.all: the three generators are called one after
\* the other, each finding prettierPromise as the one before left it
ThirdCall(runId, type, st, cache, ts, zod) ==
  << Call("generateTypeScript", runId, ts),
     Call("generateZod", runId, zod),
     Call("generateExample", runId, generateExample(type, st, CacheAfter(zod, cache))) >>

SecondCall(runId, type, st, cache, ts) ==
  ThirdCall(runId, type, st, CacheAfter(ts, cache), ts,
            generateZod(type, st, CacheAfter(ts, cache)))

RunCalls(runId, type, st, cache) ==
  SecondCall(runId, type, st, cache, generateTypeScript(type, st, cache))

\* prettierPromise once these calls are made
RECURSIVE CacheAfterAll(_, _)
CacheAfterAll(cs, cache) ==
  IF cs = <<>> THEN cache ELSE CacheAfterAll(Tail(cs), CacheAfter(Head(cs), cache))

\* the calls a run made
CallsOf(cs, runId) == SelectSeq(cs, LAMBDA c : c.run = runId)

\* Promise.all: rejected as soon as one of the promises is, fulfilled once
\* all of them are
PromiseAll(cs) ==
  IF \E i \in 1..Len(cs) : cs[i].promise.settled = "rejected" THEN "rejected"
  ELSE IF \A i \in 1..Len(cs) : cs[i].promise.settled = "resolved" THEN "resolved"
  ELSE "pending"

\* a run at its await: what it holds in its local variables
PendingRun(runId, st, parsed, inferred) ==
  [runId |-> runId, currentSettings |-> st, type |-> inferred.type,
   allDiagnostics |-> parsed.diagnostics \o inferred.diagnostics,
   fieldCount |-> inferred.fieldCount]

\* a slip: the committed result still says that a run is under way
CommittedStillProcessing(run, cs) ==
  [typescript |-> cs[1].promise.text, zod |-> cs[2].promise.text,
   example |-> cs[3].promise.text,
   diagnostics |-> run.allDiagnostics, isValid |-> TRUE,
   fieldCount |-> run.fieldCount,
   rootTypeName |-> run.currentSettings.rootTypeName, isProcessing |-> TRUE]

\* the result state of lines 96-105, cs being the three calls of the run
CommittedResult(run, cs) ==
  [typescript |-> cs[1].promise.text, zod |-> cs[2].promise.text,
   example |-> cs[3].promise.text,
   diagnostics |-> run.allDiagnostics, isValid |-> TRUE,
   fieldCount |-> run.fieldCount,
   rootTypeName |-> run.currentSettings.rootTypeName, isProcessing |-> FALSE]

\* a slip: the token is not compared
IsCurrentAlways(runId, current) == TRUE

\* runId === abortRef.current
IsCurrent(runId, current) == runId = current

\* convert past its await, once Promise.all has settled: the rest of the try
\* block or the catch block; prev is the result state before, current is
\* abortRef.current
Continued(run, cs, prev, current) ==
  IF ~IsCurrent(run.runId, current) THEN prev
  ELSE IF PromiseAll(cs) = "resolved" THEN CommittedResult(run, cs)
  ELSE FailedResult(Append(run.allDiagnostics, GenerationError))

\* the result state once these runs have gone on, the earliest first
RECURSIVE Continuations(_, _, _, _)
ContinuedFirst(resumed, cs, prev, current, run) ==
  Continuations(resumed \ {run}, cs,
                Continued(run, CallsOf(cs, run.runId), prev, current), current)
Continuations(resumed, cs, prev, current) ==
  IF resumed = {} THEN prev
  ELSE ContinuedFirst(resumed, cs, prev, current,
         CHOOSE run \in resumed : \A other \in resumed : run.runId <= other.runId)

----------------------------------------------------------------------------
(* Bounds and the inputs drawn within them *)

MaxCalls   == 3   \* generate calls on one NameGenerator between two resets
MaxTypes   == 3   \* length of a list handed to mergeTypes
MaxObjects == 3   \* length of a list handed to mergeObjectTypes
MaxNodes   == 4   \* nodes (scalars, arrays, objects) of an enumerated JSON value
MaxRuns    == 2   \* convert invocations of one useConverter instance
MaxTokens  == 3   \* tokens of an enumerated input text
MaxFormatCalls == 3 \* calls of formatTypeScript and of the generators on one cache
MaxOtherCalls  == 1 \* calls made besides a generator call under study

NoResult == [kind |-> "none"]

KeyA     == <<"a">>
KeyB     == <<"b">>
KeyA2    == <<"a","2">>
KeyRoot  == <<"r","o","o","t">>
\* keys that meet the prototype chain of a property map, an array index, and
\* a key outside ASCII
KeyToString == Chars("toString")
KeyType     == Chars("type")
KeyOne      == <<"1">>
KeyEtat     == Chars("état_civil")
KeyLambda   == <<"ƛ">>
KeyDeseret  == <<"a", "\\uD801", "\\uDC00">>
PlainText == <<"x">>
DateText  == <<"2","0","2","5","-","0","1","-","1","5">>
DateTimeText ==
  <<"2","0","2","5","-","0","1","-","1","5","T","0","9",":","3","0",":","0","0",
    ".","0","0","0","Z">>
\* a date followed by an hour without minutes: no match
HourOnlyText == Chars("2025-01-15T09")
OffsetText == Chars("2025-01-15T09:30+0200")

SegmentLists ==
  { <<>>, <<ItemSegment>>, <<<<"i","t","e","m","2">>>>, <<KeyRoot>>,
    <<KeyA, KeyB>>, <<<<"a","_","b">>>>, <<<<"a","B">>>>, <<<<"[","0","]">>>>,
    <<KeyEtat>>, <<<<"a","\f","b">>>>, <<Chars("ßeta"), Chars("ΟΔΟΣ")>>,
    <<Chars("ƛambda")>>, <<KeyDeseret>> }

RootTypeNames == { RootName, <<"M","y","T","y","p","e">> }
SettingsSet ==
  { [rootTypeName |-> n, detectDates |-> d] : n \in RootTypeNames, d \in BOOLEAN }
DefaultInferSettings == [rootTypeName |-> RootName, detectDates |-> FALSE]

\* every JSON value of at most MaxNodes nodes over these scalars and keys
Scalars  == { JNull, JNumber, JString(DateText) }
KeyNames == << KeyA, KeyRoot >>

RECURSIVE ValuesOfSize(_)
RECURSIVE SeqsOfSize(_)
RECURSIVE EntriesOfSize(_, _)

ValuesOfSize(n) ==
  (IF n = 1 THEN Scalars ELSE {})
  \cup { JArray(xs) : xs \in SeqsOfSize(n - 1) }
  \cup { JObject(es) : es \in EntriesOfSize(n - 1, 1) }

SeqsOfSize(m) ==
  IF m = 0 THEN { <<>> }
  ELSE UNION { { <<x>> \o r : x \in ValuesOfSize(k), r \in SeqsOfSize(m - k) }
               : k \in 1..m }

EntriesOfSize(m, from) ==
  IF m = 0 THEN { <<>> }
  ELSE UNION { UNION { { <<Entry(KeyNames[i], x)>> \o r :
                           x \in ValuesOfSize(k), r \in EntriesOfSize(m - k, i + 1) }
                       : k \in 1..m }
               : i \in from..Len(KeyNames) }

SmallValues == UNION { ValuesOfSize(n) : n \in 1..MaxNodes }

\* larger inputs: the documented scenarios and the shapes the unit tests use
Obj1(k, v)          == JObject(<<Entry(k, v)>>)
Obj2(k1, v1, k2, v2) == JObject(<<Entry(k1, v1), Entry(k2, v2)>>)

ScenarioValues ==
  { JBoolean, JUndefined, JString(PlainText), JString(DateTimeText),
    JArray(<<JString(PlainText), JString(DateText)>>),
    JArray(<<JString(PlainText), JString(PlainText), JString(PlainText)>>),
    JString(HourOnlyText), JString(OffsetText),
    JArray(<<JString(DateText), JString(DateTimeText), JString(DateText)>>),
    Obj2(KeyA, JString(OffsetText), KeyB, JString(HourOnlyText)),
    JArray(<< Obj1(KeyA, JString(DateText)), Obj1(KeyA, JString(HourOnlyText)) >>),
    Obj2(KeyRoot, JObject(<<>>), KeyA, JArray(<<JNumber, JNull, JString(PlainText)>>)),
    Obj2(KeyA, JString(PlainText), KeyB, JNumber),
    JArray(<< JObject(<<Entry(KeyA, JNumber), Entry(KeyB, JString(PlainText)),
                        Entry(KeyRoot, JString(PlainText))>>),
              Obj2(KeyA, JNumber, KeyB, JString(PlainText)),
              JObject(<<Entry(KeyA, JNumber), Entry(KeyB, JString(PlainText)),
                        Entry(KeyRoot, JString(PlainText))>>) >>),
    Obj1(ItemSegment, JArray(<<>>)),
    Obj1(KeyA, JArray(<<JNumber, JString(PlainText), JBoolean>>)),
    Obj1(KeyA, JString(DateTimeText)),
    Obj1(KeyA, Obj1(KeyB, Obj1(KeyRoot, JString(PlainText)))),
    Obj2(KeyA, JNumber, KeyB, Obj2(KeyA, JNumber, KeyB, JNumber)),
    Obj2(KeyRoot, JNumber, KeyA, JNull),
    JArray(<< Obj1(KeyA, JNumber), Obj1(KeyA, JString(PlainText)) >>),
    JArray(<< Obj1(KeyA, JNumber), Obj1(KeyA, JNull), Obj1(KeyB, JNull) >>),
    JArray(<< Obj1(KeyA, JObject(<<>>)), Obj2(KeyA, Obj1(KeyB, JNumber), KeyA2, JObject(<<>>)) >>),
    JArray(<< JArray(<<JNumber, JString(PlainText)>>), JArray(<<JString(PlainText), JNumber>>) >>),
    JArray(<< JNumber, Obj1(KeyA, JNumber), JNull, Obj1(KeyB, JNumber), JNumber >>),
    Obj1(KeyA, JArray(<< Obj1(ItemSegment, JArray(<<>>)), JObject(<<>>) >>)),
    Obj1(ProtoKey, JNumber),
    Obj1(ProtoKey, JNull),
    Obj1(ProtoKey, JArray(<<>>)),
    Obj1(ProtoKey, JString(DateText)),
    Obj2(KeyA, JString(PlainText), ProtoKey, Obj1(KeyB, JNumber)),
    JArray(<< Obj1(KeyToString, JNumber), JObject(<<>>) >>),
    JArray(<< Obj1(ProtoKey, JNumber), Obj1(KeyA, JNumber) >>),
    JArray(<< Obj1(ProtoKey, JNumber), Obj1(KeyType, JString(PlainText)) >>),
    Obj1(KeyA, JArray(<< Obj1(Chars("valueOf"), JNumber), Obj1(KeyB, JNumber) >>)),
    JArray(<< Obj1(ProtoKey, JNull), Obj1(KeyA, JNumber) >>),
    JArray(<< Obj1(KeyType, JNull), Obj1(ProtoKey, JNumber) >>),
    JArray(<< Obj1(ProtoKey, JArray(<<>>)), Obj1(KeyA, JNumber) >>),
    JArray(<< Obj1(ProtoKey, JString(DateText)), Obj1(KeyA, JString(PlainText)) >>),
    JArray(<< Obj1(KeyA, JArray(<<>>)), Obj1(KeyA, JArray(<<JNumber>>)) >>),
    Obj2(KeyOne, JNumber, KeyB, JNumber),
    JArray(<< Obj1(KeyB, JNumber), Obj1(KeyOne, JNumber) >>),
    Obj1(KeyEtat, Obj1(Chars("a\fb"), JObject(<<>>))),
    JArray(<< Obj1(KeyA, JNumber), Obj1(KeyLambda, Obj1(KeyB, JNumber)) >>),
    Obj1(KeyLambda, JArray(<< Obj1(KeyB, JNumber), JNumber >>)),
    Obj1(KeyDeseret, JObject(<<>>))
  }

Values == SmallValues \cup ScenarioValues

\* the texts typed into the editor
InputTexts ==
  { <<>>, <<" ", "\n">>,
    <<"{">>, <<"7">>, <<"n","u","l","l">>,
    <<"[","1",","," ","\"","x","\"","]">>,
    <<"{","\"","a","\"",":","{","}",",","\"","a","\"",":","[","]","}">>,
    Chars("[{\"toString\":1},{}]"),
    Chars("{\"__proto__\":1}"),
    Chars("{\"a\":-1.5e2}") }

AppSettingsSet ==
  { [rootTypeName |-> RootName, outputStyle |-> "type", strictObjects |-> FALSE,
     detectDates |-> FALSE, snakeToCamel |-> FALSE],
    [rootTypeName |-> <<"M","y","T","y","p","e">>, outputStyle |-> "interface",
     strictObjects |-> TRUE, detectDates |-> TRUE, snakeToCamel |-> TRUE] }

\* the arguments of the invocations made between two compared invocations
OtherValues ==
  { JArray(<< Obj1(KeyA, JObject(<<>>)), JObject(<<>>) >>),
    Obj1(KeyRoot, JObject(<<>>)) }

----------------------------------------------------------------------------
(* The name allocator on its own: one NameGenerator instance *)

IdleNames == usedNames = EmptyNames /\ returned = <<>>
IdleMerge == mergeIn = NoResult /\ mergeOut = NoResult
IdleInfer == /\ value = JNull /\ settings = DefaultInferSettings
             /\ inferResult = NoResult /\ nameGen = EmptyNames /\ earlier = NoResult
IdleConv  == abortRef = 0 /\ result = NoResult /\ runs = {} /\ finished = {}
IdleCall  == /\ callIn = NoResult /\ callOut = NoResult
             /\ prettierPromise = "null" /\ calls = <<>>

InitNames == IdleNames /\ IdleMerge /\ IdleInfer /\ IdleConv /\ IdleCall

Generate(pathSegments) ==
  /\ Len(returned) < MaxCalls
  /\ LET g == generate(usedNames, pathSegments)
     IN /\ usedNames' = g.used
        /\ returned' = Append(returned, [segments |-> pathSegments, name |-> g.name])
  /\ UNCHANGED <<mergeVars, inferVars, convVars, callVars>>

\* reset(): usedNames.clear(); the record of calls starts afresh
Reset ==
  /\ usedNames' = EmptyNames
  /\ returned' = <<>>
  /\ UNCHANGED <<mergeVars, inferVars, convVars, callVars>>

NextNames == (\E segs \in SegmentLists : Generate(segs)) \/ Reset

SpecNames == InitNames /\ [][NextNames]_vars

----------------------------------------------------------------------------
(* The merge engine on its own: one call on arguments drawn at the start *)

ItemName == <<"I","t","e","m">>

Str == Primitive("string")
Num == Primitive("number")

TypePool ==
  { Str, Num, NullType, Unknown, DateString,
    ArrayOf(Str), ArrayOf(Unknown),
    UnionOf(<<Str, Num>>), UnionOf(<<Num, NullType>>),
    \* Unions no inference returns, which the exported mergeTypes accepts
    UnionOf(<<Num, Num>>), UnionOf(<<Num, Unknown>>),
    UnionOf(<<UnionOf(<<Str, Num>>), Str>>), UnionOf(<<>>),
    ObjectOf(<<PropertyInfo(KeyA, Str, FALSE, FALSE)>>, <<"A">>),
    ObjectOf(<<PropertyInfo(KeyA, Str, TRUE, TRUE)>>, <<"B">>),
    ObjectOf(<<PropertyInfo(KeyA, Num, FALSE, FALSE)>>, <<"A">>),
    ObjectOf(<<PropertyInfo(KeyA,
                 ObjectOf(<<PropertyInfo(KeyB, Num, FALSE, FALSE)>>, <<"C">>),
                 FALSE, FALSE)>>, <<"A">>),
    ObjectOf(<<PropertyInfo(KeyA,
                 ObjectOf(<<PropertyInfo(KeyB, Num, TRUE, FALSE)>>, <<"D">>),
                 FALSE, TRUE)>>, <<"B">>) }

ObjectPool ==
  { ObjectOf(<<>>, <<"A">>),
    ObjectOf(<<PropertyInfo(KeyA, Str, FALSE, FALSE)>>, <<"A">>),
    ObjectOf(<<PropertyInfo(KeyA, Str, TRUE, FALSE)>>, <<"B">>),
    ObjectOf(<<PropertyInfo(KeyA, Str, FALSE, TRUE)>>, <<"A">>),
    ObjectOf(<<PropertyInfo(KeyA, Num, FALSE, FALSE)>>, <<"A">>),
    ObjectOf(<<PropertyInfo(KeyA, Unknown, FALSE, TRUE)>>, <<"A">>),
    ObjectOf(<<PropertyInfo(KeyA, NullType, FALSE, FALSE)>>, <<"A">>),
    ObjectOf(<<PropertyInfo(KeyB, Num, FALSE, FALSE)>>, <<"A">>),
    ObjectOf(<<PropertyInfo(KeyA, Str, FALSE, FALSE),
               PropertyInfo(KeyB, Num, FALSE, FALSE)>>, <<"A">>),
    ObjectOf(<<PropertyInfo(KeyB, Num, TRUE, FALSE),
               PropertyInfo(KeyA, Str, FALSE, FALSE)>>, <<"B">>),
    ObjectOf(<<PropertyInfo(KeyA, UnionOf(<<Str, NullType>>), FALSE, FALSE),
               PropertyInfo(KeyB, DateString, FALSE, FALSE)>>, <<"A">>),
    ObjectOf(<<PropertyInfo(KeyType, Str, FALSE, FALSE)>>, <<"A">>),
    ObjectOf(<<PropertyInfo(KeyToString, Num, FALSE, FALSE)>>, <<"A">>),
    ObjectOf(<<PropertyInfo(KeyOne, Num, FALSE, FALSE)>>, <<"A">>),
    \* what inferObject returns for {"__proto__": 1}
    ObjectOfMap(SetProp(EmptyMap, PropertyInfo(ProtoKey, Num, FALSE, FALSE)), <<"A">>) }

JObjectPool ==
  { JObject(<<>>), Obj1(KeyA, JNumber), Obj1(KeyA, JString(PlainText)),
    Obj1(KeyA, JNull), Obj1(KeyB, JNumber), Obj2(KeyA, JNumber, KeyB, JNull),
    Obj2(KeyB, JString(PlainText), KeyA, JNumber),
    Obj1(ProtoKey, JNumber), Obj1(KeyType, JString(PlainText)),
    Obj1(KeyToString, JNumber) }

ListsOver(S, n) == UNION { [1..k -> S] : k \in 0..n }

MergeInputs ==
  { [op |-> "mergeTypes", types |-> ts] : ts \in ListsOver(TypePool, MaxTypes) }
  \cup { [op |-> "mergeObjectTypes", objects |-> os, typeName |-> ItemName]
           : os \in ListsOver(ObjectPool, MaxObjects) }
  \cup { [op |-> "inferType", value |-> JArray(xs), settings |-> DefaultInferSettings]
           : xs \in ListsOver(JObjectPool, MaxObjects) \ { <<>> } }

InitMerge ==
  /\ IdleNames /\ IdleInfer /\ IdleConv /\ IdleCall
  /\ mergeIn \in MergeInputs
  /\ mergeOut = NoResult

CallMergeTypes ==
  /\ mergeIn.op = "mergeTypes" /\ mergeOut = NoResult
  /\ mergeOut' = mergeTypes(mergeIn.types)
  /\ UNCHANGED <<mergeIn, namesVars, inferVars, convVars, callVars>>

CallMergeObjectTypes ==
  /\ mergeIn.op = "mergeObjectTypes" /\ mergeOut = NoResult
  /\ mergeOut' = mergeObjectTypes(mergeIn.objects, mergeIn.typeName)
  /\ UNCHANGED <<mergeIn, namesVars, inferVars, convVars, callVars>>

\* inferType on an array whose elements are all objects
ElementTypeOf(r) ==
  IF r = TypeErrorThrown THEN TypeErrorThrown ELSE r.type.elementType

CallInferOnObjectArray ==
  /\ mergeIn.op = "inferType" /\ mergeOut = NoResult
  /\ mergeOut' = ElementTypeOf(inferType(mergeIn.value, mergeIn.settings))
  /\ UNCHANGED <<mergeIn, namesVars, inferVars, convVars, callVars>>

NextMerge == CallMergeTypes \/ CallMergeObjectTypes \/ CallInferOnObjectArray

SpecMerge == InitMerge /\ [][NextMerge]_vars

----------------------------------------------------------------------------
(* The inference engine: invocations of inferType, one after another *)

InitInfer ==
  /\ IdleNames /\ IdleMerge /\ IdleConv /\ IdleCall
  /\ value \in Values
  /\ settings \in SettingsSet
  /\ inferResult = NoResult
  /\ nameGen = EmptyNames
  /\ earlier = NoResult

Invoked(val, st, r) ==
  /\ value' = val
  /\ settings' = st
  /\ inferResult' = ResultOrThrown(r)
  /\ nameGen' = r.used

\* an invocation made while nameGen is what the invocation before left
Invoke(val, st) == Invoked(val, st, InferRun(val, st, nameGen))

\* the first invocation, on the arguments drawn at the start
InferFirst ==
  /\ inferResult = NoResult
  /\ Invoke(value, settings)
  /\ UNCHANGED <<earlier, namesVars, mergeVars, convVars, callVars>>

\* the caller keeps the result it got, to compare a later one against
Keep ==
  /\ inferResult # NoResult /\ earlier = NoResult
  /\ earlier' = [value |-> value, settings |-> settings, result |-> inferResult,
                 between |-> FALSE]
  /\ UNCHANGED <<value, settings, inferResult, nameGen, namesVars, mergeVars, convVars, callVars>>

\* an unrelated invocation in between
InferOther(val) ==
  /\ earlier # NoResult /\ ~earlier.between
  /\ Invoke(val, settings)
  /\ earlier' = [earlier EXCEPT !.between = TRUE]
  /\ UNCHANGED <<namesVars, mergeVars, convVars, callVars>>

\* a later invocation with the kept arguments
InferAgain ==
  /\ earlier # NoResult
  /\ Invoke(earlier.value, earlier.settings)
  /\ UNCHANGED <<earlier, namesVars, mergeVars, convVars, callVars>>

NextInfer ==
  InferFirst \/ Keep \/ (\E val \in OtherValues : InferOther(val)) \/ InferAgain

SpecInfer == InitInfer /\ [][NextInfer]_vars

----------------------------------------------------------------------------
(* What happens between the calls: the imports of loadPrettier settle, a    *)
(* call of prettier.format settles.  Each is one event-loop task together    *)
(* with the microtasks it leaves behind: the calls that awaited it go on, and *)
(* a convert run whose Promise.all settled goes on past its await.           *)

\* the record kept of a run that left its await
Finished(run, outcome, current) ==
  [runId |-> run.runId, current |-> current, outcome |-> outcome]

\* the convert runs once the calls stand as cs: those whose Promise.all has
\* settled leave their await, the earliest first
Resume(cs) ==
  /\ runs' = { run \in runs : PromiseAll(CallsOf(cs, run.runId)) = "pending" }
  /\ finished' = finished \cup
       { Finished(run, PromiseAll(CallsOf(cs, run.runId)), abortRef) :
           run \in { r \in runs : PromiseAll(CallsOf(cs, r.runId)) # "pending" } }
  /\ result' = Continuations(
       { r \in runs : PromiseAll(CallsOf(cs, r.runId)) # "pending" },
       cs, result, abortRef)

\* the promise of the generator call under study, when there is one
Watched(cs) == IF callOut = NoResult THEN NoResult ELSE cs[callIn.call].promise

\* the three dynamic imports settle: every call suspended at
\* await loadPrettier() goes on
LoadSettled(cs, settled) ==
  [i \in 1..Len(cs) |->
     IF cs[i].at = "loadPrettier" THEN Moved(cs[i], AfterLoad(cs[i].code, settled))
     ELSE cs[i]]

ImportsSettle(loads) ==
  /\ prettierPromise = "pending"
  /\ prettierPromise' = IF loads THEN "fulfilled" ELSE "rejected"
  /\ calls' = LoadSettled(calls, prettierPromise')
  /\ Resume(calls')
  /\ callOut' = Watched(calls')
  /\ UNCHANGED <<abortRef, callIn, namesVars, mergeVars, inferVars>>

\* prettier.format returns its text to the i-th call, or throws
FormatSettles(i, formats) ==
  /\ i \in 1..Len(calls)
  /\ calls[i].at = "format"
  /\ calls' = [calls EXCEPT ![i] = Moved(calls[i], AfterFormat(calls[i].code, formats))]
  /\ Resume(calls')
  /\ callOut' = Watched(calls')
  /\ UNCHANGED <<abortRef, callIn, prettierPromise, namesVars, mergeVars, inferVars>>

----------------------------------------------------------------------------
(* The converter hook: convert invocations, each one task, and between them  *)
(* the imports and the formatting calls settling in any order                *)

InitConv ==
  /\ IdleNames /\ IdleMerge /\ IdleInfer /\ IdleCall
  /\ abortRef = 0
  /\ result = EMPTY_RESULT
  /\ runs = {}
  /\ finished = {}

\* a slip: the flag is not raised
MarkedUnchanged(prev) == prev

\* setResult((prev) => ({ ...prev, isProcessing: true }))
MarkedProcessing(prev) == [prev EXCEPT !.isProcessing = TRUE]

NoGeneration == UNCHANGED <<runs, finished, calls, prettierPromise>>

\* convert from its try block on, cs being the three generator calls as they
\* stand when the task ends: the run waits at its await, or, when every
\* promise settled in the microtasks of this task (a load that had failed
\* before, a generator that threw), it has gone on already
StartRun(run, cs) ==
  /\ calls' = calls \o cs
  /\ prettierPromise' = CacheAfterAll(cs, prettierPromise)
  /\ IF PromiseAll(cs) = "pending"
     THEN /\ result' = MarkedProcessing(result)
          /\ runs' = runs \cup {run}
          /\ finished' = finished
     ELSE /\ result' = Continued(run, cs, MarkedProcessing(result), abortRef')
          /\ runs' = runs
          /\ finished' = finished \cup { Finished(run, PromiseAll(cs), abortRef') }

\* convert past inferType, which returned or threw: a TypeError thrown by
\* inferType ends the invocation before its try block, so that no generator
\* is called and nothing more is written
ConvertInferred(runId, st, parsed, inferred) ==
  IF inferred = TypeErrorThrown
  THEN result' = MarkedProcessing(result) /\ NoGeneration
  ELSE StartRun(PendingRun(runId, st, parsed, inferred),
                RunCalls(runId, inferred.type, GenerateSettingsOf(st), prettierPromise))

\* convert past the blank check
ConvertParsed(runId, st, parsed) ==
  IF parsed.value = JNull
  THEN result' = FailedResult(parsed.diagnostics) /\ NoGeneration
  ELSE ConvertInferred(runId, st, parsed,
                       inferType(parsed.value, InferSettingsOf(st)))

\* convert(input, currentSettings), from its first line to the end of the
\* task: to its return, or to its await and past it where nothing is left
\* to wait for
Convert(input, st) ==
  /\ abortRef < MaxRuns
  /\ abortRef' = abortRef + 1
  /\ IF IsBlank(input)
     THEN result' = EMPTY_RESULT /\ NoGeneration
     ELSE ConvertParsed(abortRef + 1, st, parseJSON(input))
  /\ callIn' = [op |-> "convert", input |-> input, currentSettings |-> st]
  /\ UNCHANGED <<callOut, namesVars, mergeVars, inferVars>>

NextConv ==
  \/ \E input \in InputTexts, st \in AppSettingsSet : Convert(input, st)
  \/ \E loads \in BOOLEAN : ImportsSettle(loads)
  \/ \E i \in 1..Len(calls), formats \in BOOLEAN : FormatSettles(i, formats)

SpecConv == InitConv /\ [][NextConv]_vars

\* what is awaited settles: the imports resolve or reject, and every call of
\* prettier.format returns or throws
GenerationGoesOn ==
  \/ \E loads \in BOOLEAN : ImportsSettle(loads)
  \/ \E i \in 1..Len(calls), formats \in BOOLEAN : FormatSettles(i, formats)

SpecConvLive == SpecConv /\ WF_vars(GenerationGoesOn)

----------------------------------------------------------------------------
(* The parser wrapper on its own: one parseJSON call on a text drawn at the  *)
(* start                                                                     *)

\* the pieces the input texts are made of
Tokens ==
  { <<"{">>, <<"}">>, <<"[">>, <<"]">>, <<":">>, <<",">>, <<" ">>, <<"1">>,
    <<"n","u","l","l">>, <<"\"","a","\"">> }

RECURSIVE TextsOfTokens(_)
TextsOfTokens(n) ==
  IF n = 0 THEN { <<>> }
  ELSE { t \o tok : t \in TextsOfTokens(n - 1), tok \in Tokens }

ParseTexts ==
  (UNION { TextsOfTokens(n) : n \in 0..MaxTokens })
  \cup InputTexts
  \cup { <<"t","r","u","e">>, <<"0","1">>, <<"\n"," ","\t">>,
         <<"{","\"","a","\"",":","n","u","l","l","}">>,
         <<"[","1",",","]">>, <<"\"","a">>,
         Chars("{\"b\":1,\"1\":2}"), <<"\f">>, <<" ", "﻿">>, <<" ", "1">>,
         Chars("-1"), Chars("1.5"), Chars("1e3"), Chars("-0.5E+2"), Chars("[-1]"),
         Chars("{\"a\":-1}"), Chars("-"), Chars("1."), Chars(".5"), Chars("1e"),
         Chars("+1"), Chars("\"a\\\"b\""), Chars("\"\\u0041\\n\""),
         Chars("\"\\u019b\""), Chars("\"\\x\""), Chars("\"\\u12\""),
         <<"\"", "a", "\t", "b", "\"">>, Chars("{\"\\u0061\":1,\"a\":null}") }

InitParse ==
  /\ IdleNames /\ IdleMerge /\ IdleInfer /\ IdleConv
  /\ callIn \in { [op |-> "parseJSON", input |-> t] : t \in ParseTexts }
  /\ callOut = NoResult
  /\ prettierPromise = "null"
  /\ calls = <<>>

CallParseJSON ==
  /\ callOut = NoResult
  /\ callIn.op = "parseJSON"
  /\ callOut' = parseJSON(callIn.input)
  /\ UNCHANGED <<callIn, prettierPromise, calls, namesVars, mergeVars, inferVars,
                 convVars>>

NextParse == CallParseJSON

SpecParse == InitParse /\ [][NextParse]_vars

----------------------------------------------------------------------------
(* The generators on their own: one call on an IR drawn at the start, with   *)
(* either outcome of loading the pretty-printer and of formatting            *)

KeyUserId == Chars("user_id")
KeyCreatedAt == Chars("created_at")
KeyCamel == Chars("userName")
KeyCamelId == Chars("userId")
KeyUpperSnake == Chars("User_id")
KeyDoubled == Chars("a__b")

\* the JSON values whose IRs are handed to the generators
GenValues ==
  { JNumber, JString(DateText), JNull,
    JObject(<<>>),
    Obj1(KeyA, JNumber),
    Obj1(KeyUserId, JString(DateText)),
    Obj2(KeyUserId, JNumber, KeyCamel, JNull),
    Obj2(KeyUserId, JNumber, KeyCamelId, JString(PlainText)),
    Obj1(KeyA, Obj2(KeyCamelId, JNumber, KeyUserId, JNumber)),
    Obj2(KeyUpperSnake, JNumber, KeyDoubled, JString(PlainText)),
    Obj2(KeyCreatedAt, Obj1(KeyUserId, JNumber), KeyA, JArray(<<>>)),
    Obj1(KeyRoot, JObject(<<>>)),
    Obj1(KeyA, Obj1(KeyB, Obj1(KeyUserId, JNull))),
    Obj2(KeyA, Obj1(KeyB, JNumber), KeyB, Obj1(KeyA, JString(PlainText))),
    Obj1(KeyA, JArray(<<JNumber, JString(PlainText)>>)),
    Obj1(KeyA, JArray(<<JNumber, JNull, Obj1(KeyB, JNumber)>>)),
    Obj1(KeyA, JArray(<<JArray(<<JNumber, JString(PlainText)>>)>>)),
    JArray(<<>>),
    JArray(<<JNumber>>),
    JArray(<<JNumber, JString(PlainText)>>),
    JArray(<<JNull, JString(DateText), JNumber>>),
    JArray(<<JArray(<<JNumber, JNull>>), JArray(<<JNumber, JNull>>)>>),
    JArray(<<Obj1(KeyUserId, JNumber), Obj2(KeyUserId, JNull, KeyA, Obj1(KeyB, JNumber))>>),
    JArray(<<Obj1(KeyA, JNumber), Obj1(KeyA, JString(PlainText))>>),
    JArray(<<Obj1(KeyA, JObject(<<>>)), JNumber>>),
    JArray(<<Obj1(KeyA, Obj1(KeyB, JNumber)), Obj1(KeyA, JObject(<<>>))>>),
    Obj2(KeyA, JNumber, ProtoKey, Obj1(KeyB, JNumber)),
    Obj2(KeyOne, JNumber, KeyEtat, JObject(<<>>)),
    JArray(<<Obj1(ProtoKey, JNumber), Obj1(KeyType, JString(PlainText))>>) }

GenRootNames == { RootName, Chars("ApiResponse") }

GenerateSettingsSet ==
  { [rootTypeName |-> n, outputStyle |-> o, strictObjects |-> s,
     detectDates |-> d, snakeToCamel |-> c] :
      n \in GenRootNames, o \in {"type", "interface"},
      s \in BOOLEAN, d \in BOOLEAN, c \in BOOLEAN }

Generators == { "generateTypeScript", "generateZod", "generateExample" }

\* IRs no inference returns, which the exported generators accept: a Union
\* whose variants are all null, and a Union without variants
HandBuiltTypes ==
  { ObjectOf(<<PropertyInfo(KeyA, UnionOf(<<NullType, NullType>>), FALSE, FALSE)>>,
             RootName),
    ObjectOf(<<PropertyInfo(KeyA, ArrayOf(UnionOf(<<>>)), FALSE, FALSE)>>,
             RootName) }

\* the converter hands a generator the IR inferred under the same settings
GenCalls ==
  { [op |-> g, type |-> inferType(v, InferSettingsOf(st)).type, settings |-> st,
     call |-> 0] :
      g \in Generators, v \in GenValues, st \in GenerateSettingsSet }
  \cup { [op |-> g, type |-> ty, settings |-> st, call |-> 0] :
           g \in Generators, ty \in HandBuiltTypes, st \in GenerateSettingsSet }

\* the text another caller hands to formatTypeScript before or after
OtherCodes == { Chars("export type Root = number;\n") }

InitGen ==
  /\ IdleNames /\ IdleMerge /\ IdleInfer /\ IdleConv
  /\ callIn \in GenCalls
  /\ callOut = NoResult
  /\ prettierPromise = "null"
  /\ calls = <<>>

\* the generator call under study, c being the call as it stands when the
\* task that made it ends; callIn.call becomes its place among the calls
CallGenerator(op, c) ==
  /\ callIn.op = op
  /\ callIn.call = 0
  /\ calls' = Append(calls, Call(op, 0, c))
  /\ callIn' = [callIn EXCEPT !.call = Len(calls) + 1]
  /\ callOut' = c.promise
  /\ prettierPromise' = CacheAfter(c, prettierPromise)
  /\ UNCHANGED <<namesVars, mergeVars, inferVars, convVars>>

CallGenerateTypeScript ==
  CallGenerator("generateTypeScript",
                generateTypeScript(callIn.type, callIn.settings, prettierPromise))

CallGenerateZod ==
  CallGenerator("generateZod",
                generateZod(callIn.type, callIn.settings, prettierPromise))

CallGenerateExample ==
  CallGenerator("generateExample",
                generateExample(callIn.type, callIn.settings, prettierPromise))

\* formatTypeScript(code) called on its own
CallFormatTypeScript(code) ==
  /\ calls' = Append(calls, Call("formatTypeScript", 0,
                                 formatTypeScript(code, prettierPromise)))
  /\ prettierPromise' = loadPrettier(prettierPromise)
  /\ UNCHANGED <<callIn, callOut, namesVars, mergeVars, inferVars, convVars>>

\* how many calls were made besides the one under study
OtherCalls == Len(calls) - (IF callIn.call = 0 THEN 0 ELSE 1)

\* another caller of the module, before the call under study or after it
CallBesides(code) == OtherCalls < MaxOtherCalls /\ CallFormatTypeScript(code)

NextGen ==
  \/ CallGenerateTypeScript
  \/ CallGenerateZod
  \/ CallGenerateExample
  \/ \E code \in OtherCodes : CallBesides(code)
  \/ \E loads \in BOOLEAN : ImportsSettle(loads)
  \/ \E i \in 1..Len(calls), formats \in BOOLEAN : FormatSettles(i, formats)

SpecGen == InitGen /\ [][NextGen]_vars

----------------------------------------------------------------------------
(* The formatter across calls: formatTypeScript called directly and by the   *)
(* generators, the calls overlapping in any way, on the one module-level     *)
(* cache                                                                     *)

\* texts handed to formatTypeScript; the third is not TypeScript
FormatCodes ==
  { <<>>,
    Chars("export type Root = number;\n"),
    Chars("export type Root = {"),
    RawTypeScript(ObjectOf(<<PropertyInfo(KeyUserId, DateString, TRUE, FALSE)>>, RootName),
                  [rootTypeName |-> RootName, outputStyle |-> "interface",
                   strictObjects |-> FALSE, detectDates |-> TRUE, snakeToCamel |-> TRUE]) }

\* the IRs and settings of the generator calls made in between; for the
\* third, generateExample throws
FormatTypes ==
  { ArrayOf(UnionOf(<<Primitive("number"), Primitive("string")>>)),
    ObjectOf(<<PropertyInfo(KeyA, Unknown, FALSE, TRUE)>>, RootName),
    ArrayOf(UnionOf(<<>>)) }
FormatSettings ==
  [rootTypeName |-> RootName, outputStyle |-> "type", strictObjects |-> TRUE,
   detectDates |-> FALSE, snakeToCamel |-> FALSE]

InitFormat == IdleNames /\ IdleMerge /\ IdleInfer /\ IdleConv /\ IdleCall

\* the call of a generator by its name
GeneratorCall(op, type, st, cache) ==
  CASE op = "generateTypeScript" -> generateTypeScript(type, st, cache)
    [] op = "generateZod"        -> generateZod(type, st, cache)
    [] OTHER                     -> generateExample(type, st, cache)

FormatDirectly(code) == Len(calls) < MaxFormatCalls /\ CallFormatTypeScript(code)

\* a generator called on its own, c being its call when the task ends
Generated(op, c) ==
  /\ Len(calls) < MaxFormatCalls
  /\ calls' = Append(calls, Call(op, 0, c))
  /\ prettierPromise' = CacheAfter(c, prettierPromise)
  /\ UNCHANGED <<callIn, callOut, namesVars, mergeVars, inferVars, convVars>>

GenerateAndFormat(op, type) ==
  Generated(op, GeneratorCall(op, type, FormatSettings, prettierPromise))

NextFormat ==
  \/ \E code \in FormatCodes : FormatDirectly(code)
  \/ \E op \in Generators, type \in FormatTypes : GenerateAndFormat(op, type)
  \/ \E loads \in BOOLEAN : ImportsSettle(loads)
  \/ \E i \in 1..Len(calls), formats \in BOOLEAN : FormatSettles(i, formats)

SpecFormat == InitFormat /\ [][NextFormat]_vars

----------------------------------------------------------------------------
(* Properties of the name allocator *)

\* C2: on one NameGenerator instance with no reset in between, no two
\* generate calls return the same string.
C2_NoNameReturnedTwice ==
  \A i, j \in 1..Len(returned) : i # j => returned[i].name # returned[j].name

----------------------------------------------------------------------------
(* Properties of the merge engine *)

\* the call was made and returned
MergeDone(op) ==
  mergeOut # NoResult /\ mergeOut # TypeErrorThrown /\ mergeIn.op = op

PairwiseEqual(types) ==
  \A i, j \in 1..Len(types) : typesEqual(types[i], types[j])
PairwiseDistinct(types) ==
  \A i, j \in 1..Len(types) : i # j => ~typesEqual(types[i], types[j])
NoneOfKind(types, k) == \A i \in 1..Len(types) : types[i].kind # k

\* the key set of each of the N merged objects
MergedKeySets ==
  IF mergeIn.op = "mergeObjectTypes"
  THEN [i \in 1..Len(mergeIn.objects) |-> KeySet(mergeIn.objects[i].properties)]
  ELSE [i \in 1..Len(mergeIn.value.items) |->
          { mergeIn.value.items[i].entries[j].key :
              j \in 1..Len(mergeIn.value.items[i].entries) }]

ObjectsMerged ==
  (MergeDone("mergeObjectTypes") \/ MergeDone("inferType")) /\ Len(MergedKeySets) >= 2

\* C5: merging N >= 2 objects (mergeObjectTypes, and inferType on an array of
\* objects) yields the union of the inputs' keys, each key once, and a key is
\* optional exactly when at least one of the N inputs lacks it.
C5_OptionalIffAbsentSomewhere ==
  ObjectsMerged =>
    /\ mergeOut.kind = "object"
    /\ KeySet(mergeOut.properties) = UNION { MergedKeySets[i] : i \in DOMAIN MergedKeySets }
    /\ Cardinality(KeySet(mergeOut.properties)) = Len(mergeOut.properties)
    /\ \A p \in 1..Len(mergeOut.properties) :
         mergeOut.properties[p].optional
           <=> \E i \in DOMAIN MergedKeySets :
                 mergeOut.properties[p].key \notin MergedKeySets[i]

\* three array elements inferred and merged, one key in all of them and one not
C5_Witness ==
  /\ MergeDone("inferType") /\ Len(MergedKeySets) = 3
  /\ \E p, q \in 1..Len(mergeOut.properties) :
       mergeOut.properties[p].optional /\ ~mergeOut.properties[q].optional

IdenticalObjectsMerged ==
  /\ MergeDone("mergeObjectTypes")
  /\ Len(mergeIn.objects) >= 1
  /\ PairwiseEqual(mergeIn.objects)

\* C6 as stated: merging N >= 1 pairwise structurally equal objects yields an
\* Object whose properties all have optional = false.
C6_IdenticalNeverOptional ==
  IdenticalObjectsMerged =>
    \A p \in 1..Len(mergeOut.properties) : ~mergeOut.properties[p].optional

\* C6 amended: merging N >= 1 pairwise structurally equal objects yields an
\* Object in which a property is optional only when N = 1 and the single input
\* already marks it optional (that input is returned as it is, renamed).
C6_IdenticalOptionalOnlyIfSingleInput ==
  IdenticalObjectsMerged =>
    /\ mergeOut.kind = "object"
    /\ Len(mergeIn.objects) = 1
         => mergeOut.properties = mergeIn.objects[1].properties
    /\ \A p \in 1..Len(mergeOut.properties) :
         mergeOut.properties[p].optional =>
           /\ Len(mergeIn.objects) = 1
           /\ Prop(mergeIn.objects[1].properties, mergeOut.properties[p].key).optional

\* three equal objects, one of them with an optional property, merged
C6_Witness ==
  /\ IdenticalObjectsMerged /\ Len(mergeIn.objects) = 3
  /\ \E i \in 1..3 : \E p \in 1..Len(mergeIn.objects[i].properties) :
       mergeIn.objects[i].properties[p].optional
  /\ Len(mergeOut.properties) > 0

DistinctTypesMerged ==
  /\ MergeDone("mergeTypes")
  /\ Len(mergeIn.types) >= 2
  /\ PairwiseDistinct(mergeIn.types)
  /\ NoneOfKind(mergeIn.types, "unknown")

\* C7 as stated: k >= 2 pairwise distinct types, none Unknown, Union-kind
\* inputs included, merge into a Union of exactly the k inputs in order.
C7_DistinctGiveUnionOfInputs ==
  DistinctTypesMerged =>
    /\ mergeOut.kind = "union"
    /\ Len(mergeOut.variants) = Len(mergeIn.types)
    /\ \A i \in 1..Len(mergeIn.types) : mergeOut.variants[i] = mergeIn.types[i]

\* C7 amended: k >= 2 pairwise distinct types, none of them Unknown or a
\* Union, merge into a Union of exactly the k inputs in first-seen order.
C7_DistinctNonUnionsGiveUnionOfInputs ==
  (DistinctTypesMerged /\ NoneOfKind(mergeIn.types, "union")) =>
    /\ mergeOut.kind = "union"
    /\ Len(mergeOut.variants) = Len(mergeIn.types)
    /\ \A i \in 1..Len(mergeIn.types) : mergeOut.variants[i] = mergeIn.types[i]

\* three distinct types, two of them of the same kind, merged
C7_Witness ==
  /\ DistinctTypesMerged /\ NoneOfKind(mergeIn.types, "union")
  /\ Len(mergeIn.types) = 3
  /\ \E i, j \in 1..3 : i # j /\ mergeIn.types[i].kind = mergeIn.types[j].kind
  /\ mergeOut.kind = "union"

EqualTypesMerged ==
  /\ MergeDone("mergeTypes")
  /\ Len(mergeIn.types) >= 1
  /\ PairwiseEqual(mergeIn.types)

\* C8 as stated: k >= 1 pairwise structurally equal types, of whatever kind,
\* merge into a single type that is not a Union.
C8_EqualGiveNonUnion ==
  EqualTypesMerged => mergeOut.kind # "union"

\* the types a type stands for: itself, or, for a Union, what its variants
\* stand for, through Unions within Unions, in order
RECURSIVE Leaves(_)
RECURSIVE LeavesOfAll(_)
LeavesOfAll(types) ==
  IF types = <<>> THEN <<>> ELSE Leaves(Head(types)) \o LeavesOfAll(Tail(types))
Leaves(type) == IF type.kind = "union" THEN LeavesOfAll(type.variants) ELSE <<type>>

\* the positions of a list that hold a type no earlier position holds
FirstOccurrences(types) ==
  { i \in 1..Len(types) : \A j \in 1..(i - 1) : ~typesEqual(types[j], types[i]) }

\* the positions that remain: the first occurrences other than Unknown, or
\* all first occurrences when there is nothing but Unknown
RemainingPositions(types) ==
  IF \E i \in FirstOccurrences(types) : types[i].kind # "unknown"
  THEN { i \in FirstOccurrences(types) : types[i].kind # "unknown" }
  ELSE FirstOccurrences(types)

\* the types at a set of positions, in order
RECURSIVE AtPositions(_, _, _)
AtPositions(types, positions, i) ==
  IF i > Len(types) THEN <<>>
  ELSE (IF i \in positions THEN <<types[i]>> ELSE <<>>)
       \o AtPositions(types, positions, i + 1)

\* what remains of one type: of a type that is no Union, the type itself
Remaining(type) == AtPositions(Leaves(type), RemainingPositions(Leaves(type)), 1)

\* C8 amended: k >= 1 pairwise structurally equal types merge into what
\* remains of the first input once its variants are flattened through nested
\* Unions and deduplicated and Unknown is dropped beside other types: the
\* first input itself when it is not a Union, which then is the single
\* non-Union type returned; for Union inputs the single remaining variant,
\* unwrapped, when exactly one remains, and otherwise a Union of the
\* remaining variants.
C8_EqualGiveRemainingOfFirst ==
  EqualTypesMerged =>
    /\ mergeIn.types[1].kind # "union" =>
         mergeOut.kind # "union" /\ mergeOut = mergeIn.types[1]
    /\ mergeOut.kind # "union" <=> Len(Remaining(mergeIn.types[1])) = 1
    /\ mergeOut = IF Len(Remaining(mergeIn.types[1])) = 1
                  THEN Remaining(mergeIn.types[1])[1]
                  ELSE UnionOf(Remaining(mergeIn.types[1]))

\* three equal Unions of number and Unknown merged: number is returned,
\* unwrapped
C8_Witness ==
  /\ EqualTypesMerged
  /\ Len(mergeIn.types) = 3
  /\ mergeIn.types[1] = UnionOf(<<Num, Unknown>>)
  /\ mergeOut = Num

----------------------------------------------------------------------------
(* Properties of the inference engine *)

\* every node of an IR tree, parents before children
RECURSIVE Nodes(_)
RECURSIVE NodesOfAll(_)
NodesOfAll(types) ==
  IF types = <<>> THEN <<>> ELSE Nodes(Head(types)) \o NodesOfAll(Tail(types))
Nodes(ty) ==
  <<ty>> \o
  (CASE ty.kind = "array"  -> Nodes(ty.elementType)
     [] ty.kind = "union"  -> NodesOfAll(ty.variants)
     [] ty.kind = "object" ->
          NodesOfAll([i \in 1..Len(ty.properties) |-> ty.properties[i].type])
     [] OTHER -> <<>>)

NodesOfKind(ty, k) == Filter(LAMBDA n : n.kind = k, Nodes(ty))

\* inferType was invoked and returned
Inferred == inferResult # NoResult /\ inferResult # TypeErrorThrown

\* C1: in the IR of one inferType call, no two Object nodes carry the same
\* typeName.
C1_TypeNamesUnique ==
  Inferred =>
    \A i, j \in 1..Len(NodesOfKind(inferResult.type, "object")) :
      i # j => NodesOfKind(inferResult.type, "object")[i].typeName
               # NodesOfKind(inferResult.type, "object")[j].typeName

\* C4: two invocations of inferType with equal arguments return equal
\* results (type tree with every typeName, diagnostics, fieldCount), whatever
\* was invoked before or between them, and each starts from an allocator
\* that holds no name of an earlier invocation: what it leaves behind is what
\* the same invocation leaves when nothing came before it.
C4_EqualArgumentsEqualResults ==
  /\ (earlier # NoResult /\ value = earlier.value /\ settings = earlier.settings)
       => inferResult = earlier.result
  /\ inferResult # NoResult => nameGen = InferRun(value, settings, EmptyNames).used

\* an object input inferred, another input inferred, then the first again
C4_Witness ==
  /\ Inferred /\ earlier # NoResult /\ earlier.between
  /\ value = earlier.value /\ settings = earlier.settings
  /\ value \notin OtherValues
  /\ Len(NodesOfKind(inferResult.type, "object")) >= 2

WellFormedUnion(u) ==
  /\ Len(u.variants) >= 2
  /\ \A i \in 1..Len(u.variants) : u.variants[i].kind # "union"
  /\ \A i, j \in 1..Len(u.variants) :
       i # j => ~typesEqual(u.variants[i], u.variants[j])

\* C9: every Union node of an IR returned by inferType has at least two
\* variants, none of them a Union, no two of them structurally equal.
C9_UnionsFlatDistinct ==
  Inferred =>
    \A i \in 1..Len(NodesOfKind(inferResult.type, "union")) :
      WellFormedUnion(NodesOfKind(inferResult.type, "union")[i])

\* an IR with a Union of three variants below the root
C9_Witness ==
  /\ Inferred
  /\ \E i \in 1..Len(NodesOfKind(inferResult.type, "union")) :
       Len(NodesOfKind(inferResult.type, "union")[i].variants) = 3

HasErrorDiagnostic(diags) == \E i \in 1..Len(diags) : diags[i].level = "error"

\* the shape of a root value that is neither an object nor an array
ScalarShape(val, st) ==
  CASE val.t = "null"    -> NullType
    [] val.t = "number"  -> Num
    [] val.t = "boolean" -> Primitive("boolean")
    [] val.t = "string"  ->
         IF st.detectDates /\ val.s \in {DateText, DateTimeText, OffsetText}
         THEN DateString ELSE Str
    [] OTHER             -> Unknown

\* C10: the diagnostics hold an error exactly when the root value is neither
\* an object nor an array, and the type returned then is still the value's shape.
C10_ErrorIffScalarRoot ==
  Inferred =>
    /\ HasErrorDiagnostic(inferResult.diagnostics)
         <=> value.t \notin {"object", "array"}
    /\ value.t \notin {"object", "array"}
         => inferResult.type = ScalarShape(value, settings)

\* a null root: the error is reported and the type is Primitive(null)
C10_Witness ==
  /\ Inferred /\ value = JNull
  /\ HasErrorDiagnostic(inferResult.diagnostics)
  /\ inferResult.type = NullType

----------------------------------------------------------------------------
(* Properties of the converter hook *)

\* the result state shows what this run generated, or its generation error
WrittenBy(run, shown) ==
  \/ /\ shown.isValid /\ ~shown.isProcessing
     /\ shown.diagnostics = run.allDiagnostics
     /\ shown.fieldCount = run.fieldCount
     /\ shown.rootTypeName = run.currentSettings.rootTypeName
     /\ shown.typescript.code
          = RawTypeScript(run.type, GenerateSettingsOf(run.currentSettings))
     /\ shown.zod.code = RawZod(run.type, GenerateSettingsOf(run.currentSettings))
     /\ shown.example.code
          = RawExample(run.type, GenerateSettingsOf(run.currentSettings))
  \/ shown = FailedResult(Append(run.allDiagnostics, GenerationError))

\* the runs that leave their await in this step
Resumed == runs \ runs'

\* C3: a run that leaves its await changes the result state only if its
\* runId still equals the current token: when runs leave their await, the
\* result state becomes what the current one of them writes, and stays as it
\* was, its diagnostics included, when all of them are superseded.
C3_StaleRunNeverWrites ==
  [][Resumed # {} =>
       IF \E run \in Resumed : run.runId = abortRef
       THEN \E run \in Resumed : run.runId = abortRef /\ WrittenBy(run, result')
       ELSE result' = result]_vars

\* a superseded run has left its await after the run that superseded it had
\* committed its output, which the result state still shows
C3_Witness ==
  /\ \E f, g \in finished :
       /\ f.runId < g.runId /\ f.current = abortRef /\ g.runId = abortRef
       /\ g.outcome = "resolved"
  /\ runs = {}
  /\ result.isValid /\ ~result.isProcessing

----------------------------------------------------------------------------
(* Properties of the parser wrapper *)

CallDone(op) == callOut # NoResult /\ callIn.op = op

----------------------------------------------------------------------------
(* Further properties of the inference engine *)

\* the number of keys over every object occurring anywhere in a JSON value
RECURSIVE CountKeys(_)
RECURSIVE CountKeysOfAll(_)
CountKeysOfAll(vals) ==
  IF vals = <<>> THEN 0 ELSE CountKeys(Head(vals)) + CountKeysOfAll(Tail(vals))
CountKeys(val) ==
  CASE val.t = "array"  -> CountKeysOfAll(val.items)
    [] val.t = "object" ->
         Len(val.entries)
         + CountKeysOfAll([i \in 1..Len(val.entries) |-> val.entries[i].val])
    [] OTHER -> 0

\* C13: fieldCount is the total number of keys over every object occurring
\* anywhere in the input value, the keys of each array element counted
\* separately even when the elements are merged; 0 when there is no object.
C13_FieldCountIsKeyTotal ==
  Inferred => inferResult.fieldCount = CountKeys(value)

\* an array of objects merged into one Object with fewer properties than the
\* keys counted
C13_Witness ==
  /\ Inferred /\ value.t = "array"
  /\ inferResult.type.elementType.kind = "object"
  /\ Len(inferResult.type.elementType.properties) >= 1
  /\ inferResult.fieldCount > Len(inferResult.type.elementType.properties) + 1

----------------------------------------------------------------------------
(* Properties of the generators *)

\* the positions that end a line of a text, with 0 before the first line
Breaks(text) == {0} \cup { i \in 1..Len(text) : text[i] = "\n" }
NextBreak(text, b) ==
  IF \E i \in (b + 1)..Len(text) : text[i] = "\n"
  THEN CHOOSE i \in (b + 1)..Len(text) :
         text[i] = "\n" /\ \A j \in (b + 1)..(i - 1) : text[j] # "\n"
  ELSE Len(text) + 1
\* the line that starts after the break b
LineAfter(text, b) == SubSeq(text, b + 1, NextBreak(text, b) - 1)

GeneratorDone(op) == CallDone(op) /\ callOut.settled = "resolved"

\* the emitted text, before the pretty-printer
Emitted == callOut.text.code

\* the line that opens the declaration of an Object
TsHeader(obj, st) ==
  IF st.outputStyle = "interface"
  THEN Chars("export interface ") \o obj.typeName \o Chars(" {")
  ELSE Chars("export type ") \o obj.typeName \o Chars(" = {")
ZodHeader(obj) ==
  Chars("export const ") \o toSchemaName(obj.typeName) \o Chars(" = z.object({")
HeaderOf(obj) ==
  IF callIn.op = "generateZod" THEN ZodHeader(obj) ELSE TsHeader(obj, callIn.settings)

Declared(text, header) == \E b \in Breaks(text) : LineAfter(text, b) = header
DeclaredBefore(text, first, second) ==
  \E b1, b2 \in Breaks(text) :
    b1 < b2 /\ LineAfter(text, b1) = first /\ LineAfter(text, b2) = second

\* below are the Object nodes under obj, obj itself first
DependenciesFirst(text, obj, below) ==
  /\ Declared(text, HeaderOf(obj))
  /\ \A p \in 2..Len(below) :
       DeclaredBefore(text, HeaderOf(below[p]), HeaderOf(obj))

AllDependenciesFirst(text, objs) ==
  \A o \in 1..Len(objs) :
    DependenciesFirst(text, objs[o], NodesOfKind(objs[o], "object"))

\* C14: in the text of generateTypeScript and of generateZod every Object of
\* the IR has a declaration, and the declaration of every Object reachable
\* from an Object's properties comes before that Object's own declaration.
C14_DependenciesDeclaredFirst ==
  (GeneratorDone("generateTypeScript") \/ GeneratorDone("generateZod")) =>
    AllDependenciesFirst(Emitted, NodesOfKind(callIn.type, "object"))

\* a schema text for an IR whose Objects nest three deep
C14_Witness ==
  /\ GeneratorDone("generateZod")
  /\ callIn.type.kind = "object"
  /\ \E i \in 1..Len(callIn.type.properties) :
       /\ callIn.type.properties[i].type.kind = "object"
       /\ Len(NodesOfKind(callIn.type.properties[i].type, "object")) >= 2

Occurs(text, part) ==
  \E i \in 1..(Len(text) - Len(part) + 1) : SubSeq(text, i, i + Len(part) - 1) = part

\* an Array of a Union, as the notation requires it: ( variants )[]
Parenthesized(arr, st) ==
  Chars("(") \o typeToTS(arr.elementType, st) \o Chars(")[]")

UnionArrays(type) ==
  SelectSeq(NodesOfKind(type, "array"), LAMBDA a : a.elementType.kind = "union")

AllParenthesized(text, arrays, st) ==
  \A i \in 1..Len(arrays) : Occurs(text, Parenthesized(arrays[i], st))

\* C15: wherever generateTypeScript renders an Array whose element type is a
\* Union, the root-level array alias included, the element rendering stands
\* in parentheses before the [] suffix.
C15_UnionElementParenthesized ==
  GeneratorDone("generateTypeScript") =>
    AllParenthesized(Emitted, UnionArrays(callIn.type), callIn.settings)

HasPrefix(line, prefix) ==
  Len(line) >= Len(prefix) /\ SubSeq(line, 1, Len(prefix)) = prefix

\* the break that starts the k-th line after the line started by b
RECURSIVE NthBreak(_, _, _)
NthBreak(text, b, k) ==
  IF k = 0 THEN b ELSE NthBreak(text, NextBreak(text, b), k - 1)

\* the key the declaration and the example are to show for a property key
ConvertedKey(key, enabled) ==
  IF enabled /\ isSnakeCase(key) THEN snakeToCamel(key) ELSE key

\* how the line of each property starts in a declaration and in a schema
TsPrefixes(props, st) ==
  [i \in 1..Len(props) |->
     Chars("  ") \o ConvertedKey(props[i].key, st.snakeToCamel)
     \o (IF props[i].optional THEN Chars("?: ") ELSE Chars(": "))]
ZodPrefixes(props) ==
  [i \in 1..Len(props) |-> Chars("  ") \o props[i].key \o Chars(": ")]

\* the header of an Object, followed by one line per property, in order
FieldsFollow(text, b, prefixes) ==
  \A k \in 1..Len(prefixes) :
    HasPrefix(LineAfter(text, NthBreak(text, b, k)), prefixes[k])
ObjectEmitted(text, header, prefixes) ==
  \E b \in Breaks(text) : LineAfter(text, b) = header /\ FieldsFollow(text, b, prefixes)

\* the Objects the example writes out, each with the depth it is written at
RECURSIVE ExampleObjects(_, _)
RECURSIVE ExampleObjectsOf(_, _)
ExampleObjectsOf(props, indent) ==
  IF props = <<>> THEN <<>>
  ELSE (IF Head(props).nullable THEN <<>>
        ELSE ExampleObjects(Head(props).type, indent))
       \o ExampleObjectsOf(Tail(props), indent)
ExampleObjects(type, indent) ==
  CASE type.kind = "object" ->
         <<[obj |-> type, indent |-> indent]>>
         \o ExampleObjectsOf(type.properties, indent + 1)
    [] type.kind = "array" -> ExampleObjects(type.elementType, indent)
    [] type.kind = "union" ->
         ExampleObjects(
           IF \E i \in 1..Len(type.variants) : type.variants[i] # Primitive("null")
           THEN type.variants[CHOOSE i \in 1..Len(type.variants) :
                  /\ type.variants[i] # Primitive("null")
                  /\ \A j \in 1..(i - 1) : type.variants[j] = Primitive("null")]
           ELSE type.variants[1], indent)
    [] OTHER -> <<>>

ExampleKeyShown(text, key, indent, enabled) ==
  \E b \in Breaks(text) :
    HasPrefix(LineAfter(text, b),
              Pad(indent + 1) \o ConvertedKey(key, enabled) \o Chars(": "))

ExampleKeysShown(text, shown, enabled) ==
  \A e \in 1..Len(shown) :
    \A p \in 1..Len(shown[e].obj.properties) :
      ExampleKeyShown(text, shown[e].obj.properties[p].key, shown[e].indent, enabled)

DeclarationKeysShown(text, objs, st) ==
  \A o \in 1..Len(objs) :
    ObjectEmitted(text, TsHeader(objs[o], st), TsPrefixes(objs[o].properties, st))

SchemaKeysShown(text, objs) ==
  \A o \in 1..Len(objs) :
    ObjectEmitted(text, ZodHeader(objs[o]), ZodPrefixes(objs[o].properties))

\* C16: generateTypeScript and generateExample show snakeToCamel(key) for
\* every property key that satisfies isSnakeCase when snakeToCamel is enabled
\* and the key itself otherwise; generateZod shows every property key as it
\* is in the IR, whatever the settings.
C16_KeysRewrittenExceptInSchema ==
  /\ GeneratorDone("generateTypeScript") =>
       DeclarationKeysShown(Emitted, NodesOfKind(callIn.type, "object"), callIn.settings)
  /\ GeneratorDone("generateExample") =>
       ExampleKeysShown(Emitted, ExampleObjects(callIn.type, 0), callIn.settings.snakeToCamel)
  /\ GeneratorDone("generateZod") =>
       SchemaKeysShown(Emitted, NodesOfKind(callIn.type, "object"))

\* a declaration, with snakeToCamel enabled, of an Object that has a
\* snake_case key and a key that is not
C16_Witness ==
  /\ GeneratorDone("generateTypeScript")
  /\ callIn.settings.snakeToCamel
  /\ callIn.type.kind = "object"
  /\ \E i, j \in 1..Len(callIn.type.properties) :
       /\ isSnakeCase(callIn.type.properties[i].key)
       /\ snakeToCamel(callIn.type.properties[i].key) # callIn.type.properties[i].key
       /\ ~isSnakeCase(callIn.type.properties[j].key)

----------------------------------------------------------------------------
(* Properties of date detection and of null properties *)

\* the string values of a JSON value, in the order infer visits them
RECURSIVE StringValues(_)
RECURSIVE StringValuesOfAll(_)
StringValuesOfAll(vals) ==
  IF vals = <<>> THEN <<>>
  ELSE StringValues(Head(vals)) \o StringValuesOfAll(Tail(vals))
StringValues(v) ==
  CASE v.t = "string" -> <<v.s>>
    [] v.t = "array"  -> StringValuesOfAll(v.items)
    [] v.t = "object" ->
         StringValuesOfAll([i \in 1..Len(v.entries) |-> v.entries[i].val])
    [] OTHER -> <<>>

DateCount(strs) == Cardinality({ i \in 1..Len(strs) : IsoDateTest(strs[i]) })
InfoCount(diags) == Cardinality({ i \in 1..Len(diags) : diags[i].level = "info" })

\* what a string value is to be inferred as
ExpectedStringType(str, detect) ==
  IF detect /\ IsoDateTest(str) THEN DateString ELSE Primitive("string")

\* an object somewhere in the value has the key __proto__, which inferObject
\* does not record as a property of its own
RECURSIVE HasProtoKey(_)
HasProtoKey(v) ==
  CASE v.t = "array"  -> \E i \in 1..Len(v.items) : HasProtoKey(v.items[i])
    [] v.t = "object" ->
         \E i \in 1..Len(v.entries) :
           v.entries[i].key = ProtoKey \/ HasProtoKey(v.entries[i].val)
    [] OTHER -> FALSE

\* a string at the root or directly under a key of the root object; the
\* property is read as properties[key] reads it
DirectStringsTyped(v, type, detect) ==
  /\ v.t = "string" => type = ExpectedStringType(v.s, detect)
  /\ v.t = "object" =>
       \A i \in 1..Len(v.entries) :
         v.entries[i].val.t = "string" =>
           ReadProperty(type, v.entries[i].key).type
             = ExpectedStringType(v.entries[i].val.s, detect)

\* what the IR holds: a DateString only if one was to be produced, and, all
\* the keys being recorded, one if one was to be produced and a
\* Primitive(string) if some string was to stay one
DatesHeld(strs, type, detect, recorded) ==
  /\ (NodesOfKind(type, "date-string") # <<>>) => (detect /\ DateCount(strs) > 0)
  /\ recorded =>
       /\ (detect /\ DateCount(strs) > 0) => NodesOfKind(type, "date-string") # <<>>
       /\ (\E i \in 1..Len(strs) : ~(detect /\ IsoDateTest(strs[i])))
            => \E n \in 1..Len(Nodes(type)) : Nodes(type)[n] = Primitive("string")

\* each string value of the input, inferred where it stands
StringsInferred(strs, st) ==
  \A i \in 1..Len(strs) :
    inferType(JString(strs[i]), st).type = ExpectedStringType(strs[i], st.detectDates)

DatesDetected(v, strs, type, diags, st) ==
  /\ DatesHeld(strs, type, st.detectDates, ~HasProtoKey(v))
  /\ StringsInferred(strs, st)
  /\ InfoCount(diags) = (IF st.detectDates THEN DateCount(strs) ELSE 0)

\* C17: a string value becomes a DateString exactly when detectDates is set
\* and the string matches the ISO-8601 pattern, with one info diagnostic for
\* every such string value; without detectDates the IR has no DateString
\* and strings are Primitive(string).
C17_DateStringIffEnabledAndMatching ==
  Inferred =>
    /\ DatesDetected(value, StringValues(value), inferResult.type,
                     inferResult.diagnostics, settings)
    /\ DirectStringsTyped(value, inferResult.type, settings.detectDates)

\* three matching strings in one array: one DateString node, three diagnostics
C17_Witness ==
  /\ Inferred /\ settings.detectDates
  /\ DateCount(StringValues(value)) = 3
  /\ Len(NodesOfKind(inferResult.type, "date-string")) = 1
  /\ InfoCount(inferResult.diagnostics) = 3

HasNullType(type) ==
  \/ type = Primitive("null")
  \/ /\ type.kind = "union"
     /\ \E v \in 1..Len(type.variants) : type.variants[v] = Primitive("null")

NoNullProperty(objs) ==
  \A o \in 1..Len(objs) :
    \A p \in 1..Len(objs[o].properties) : ~HasNullType(objs[o].properties[p].type)

\* the values found under a key in the objects of an array
ValuesUnder(items, key) ==
  UNION { { items[i].entries[j].val :
              j \in { k \in 1..Len(items[i].entries) : items[i].entries[k].key = key } }
          : i \in 1..Len(items) }

ArrayOfObjects(v) ==
  v.t = "array" /\ Len(v.items) >= 1 /\ \A i \in 1..Len(v.items) : v.items[i].t = "object"

\* a null under a key of the merged element objects: the key is a property
\* with nullable set, and with type Unknown exactly when every value under
\* the key is null
MergedNullRecorded(items, props) ==
  \A i \in 1..Len(items) :
    \A j \in 1..Len(items[i].entries) :
      items[i].entries[j].val = JNull =>
        /\ HasKey(props, items[i].entries[j].key)
        /\ Prop(props, items[i].entries[j].key).nullable
        /\ Prop(props, items[i].entries[j].key).type = Unknown
             <=> ValuesUnder(items, items[i].entries[j].key) = { JNull }

\* a null under a key of an object: the key is a property with nullable set
\* and type Unknown
NullRecorded(v, type) ==
  /\ v.t = "object" =>
       \A i \in 1..Len(v.entries) :
         v.entries[i].val = JNull =>
           /\ HasKey(type.properties, v.entries[i].key)
           /\ Prop(type.properties, v.entries[i].key).nullable
           /\ Prop(type.properties, v.entries[i].key).type = Unknown
  /\ ArrayOfObjects(v) =>
       /\ type.kind = "array" /\ type.elementType.kind = "object"
       /\ MergedNullRecorded(v.items, type.elementType.properties)

\* C18: in the IR inferType returns no property type is Primitive(null) or a
\* Union with a Primitive(null) variant; a property whose value was null is
\* recorded with nullable set, with type Unknown or the merged type of the
\* non-null occurrences of the key.
C18_NullOnlyAsNullableFlag ==
  Inferred =>
    /\ NoNullProperty(NodesOfKind(inferResult.type, "object"))
    /\ NullRecorded(value, inferResult.type)

----------------------------------------------------------------------------
(* Properties of the formatter *)

\* a call that got as far as formatTypeScript: every direct call, and every
\* generator call whose generator did not throw before
ReachedFormatter(c) == c.thrown # "generator"

\* loading the pretty-printer failed, in whichever call started it, or
\* prettier.format threw in this call
FormattingFailed(c) == prettierPromise = "rejected" \/ c.thrown = "format"

\* C19: formatTypeScript never rejects; whenever loading the pretty-printer
\* or formatting throws it resolves to the text it was given, unchanged, so a
\* generator does not fail because of the formatting step.
C19_FormattingNeverRejects ==
  \A i \in 1..Len(calls) :
    ReachedFormatter(calls[i]) =>
      /\ calls[i].promise.settled # "rejected"
      /\ calls[i].at = "return" =>
           /\ calls[i].promise.settled = "resolved"
           /\ calls[i].promise.text.code = calls[i].code
           /\ calls[i].promise.text.formatted <=> ~FormattingFailed(calls[i])

\* a generator called while the imports another call started were pending:
\* they are not started again, they reject, and both calls resolve to the
\* text they were given; a call made after that resolves likewise
C19_Witness ==
  /\ Len(calls) = 3
  /\ prettierPromise = "rejected"
  /\ calls[1].op = "formatTypeScript" /\ calls[2].op = "generateZod"
  /\ \A i \in 1..3 :
       /\ calls[i].thrown = "loadPrettier"
       /\ calls[i].promise = Resolved(Text(calls[i].code))
  /\ calls[2].code = RawZod(ObjectOf(<<PropertyInfo(KeyA, Unknown, FALSE, TRUE)>>, RootName),
                            FormatSettings)

----------------------------------------------------------------------------
(* Properties of the name allocator's numbering *)

\* the base name the i-th call since the last reset asked for
BaseAt(i) == CandidateName(returned[i].segments)

\* how many of the first i calls since the last reset asked for that base
UsesUpTo(i) == Cardinality({ j \in 1..i : BaseAt(j) = BaseAt(i) })

Numbered(base, n) == IF n = 1 THEN base ELSE base \o NumToStr(n)

\* C20: the n-th generate call since the last reset that yields a given base
\* returns the base for n = 1 and the base followed by the decimal n for
\* n >= 2; an empty segment sequence has the base "Root"; reset starts every
\* count again.
C20_NthUseIsBaseThenBaseN ==
  \A i \in 1..Len(returned) :
    /\ returned[i].name = Numbered(BaseAt(i), UsesUpTo(i))
    /\ returned[i].segments = <<>> => BaseAt(i) = <<"R","o","o","t">>

\* three calls for the base Root, the second with no segments at all:
\* Root, Root2, Root3
C20_Witness ==
  /\ Len(returned) = 3
  /\ returned[2].segments = <<>>
  /\ returned[1].segments # <<>> /\ returned[3].segments # <<>>
  /\ returned[1].name = <<"R","o","o","t">>
  /\ returned[2].name = <<"R","o","o","t","2">>
  /\ returned[3].name = <<"R","o","o","t","3">>

----------------------------------------------------------------------------
(* Properties of array inference *)

\* the segment paths of the arrays of a JSON value that satisfy the test
\* (empty, or not), in the order infer reaches them; an element's segment
\* is its index in brackets, a property value's segment is its key
RECURSIVE ArrayPaths(_, _, _)
RECURSIVE ArrayPathsIn(_, _, _, _)
RECURSIVE ArrayPathsUnder(_, _, _, _)
ArrayPathsIn(items, i, path, empty) ==
  IF i > Len(items) THEN <<>>
  ELSE ArrayPaths(items[i], Append(path, <<"[">> \o NumToStr(i - 1) \o <<"]">>), empty)
       \o ArrayPathsIn(items, i + 1, path, empty)
ArrayPathsUnder(entries, i, path, empty) ==
  IF i > Len(entries) THEN <<>>
  ELSE ArrayPaths(entries[i].val, Append(path, entries[i].key), empty)
       \o ArrayPathsUnder(entries, i + 1, path, empty)
ArrayPaths(v, path, empty) ==
  CASE v.t = "array"  ->
         (IF (v.items = <<>>) = empty THEN <<path>> ELSE <<>>)
         \o ArrayPathsIn(v.items, 1, path, empty)
    [] v.t = "object" -> ArrayPathsUnder(v.entries, 1, path, empty)
    [] OTHER -> <<>>

\* the value found at a segment path below a value
RECURSIVE ValueAt(_, _)
ValueAt(v, path) ==
  IF path = <<>> THEN v
  ELSE IF v.t = "array"
  THEN ValueAt(v.items[CHOOSE i \in 1..Len(v.items) :
                         <<"[">> \o NumToStr(i - 1) \o <<"]">> = Head(path)],
               Tail(path))
  ELSE ValueAt(v.entries[CHOOSE i \in 1..Len(v.entries) :
                           v.entries[i].key = Head(path)].val,
               Tail(path))

\* the diagnostics whose message has this text, in the order pushed
Messages(diags, text) == SelectSeq(diags, LAMBDA d : d.message.text = text)

DottedPath(path) == Join(path, <<".">>)

\* one warning per array, in visiting order, each under the array's path
WarnedInOrder(warnings, paths) ==
  /\ Len(warnings) = Len(paths)
  /\ \A i \in 1..Len(paths) :
       /\ warnings[i].level = "warning"
       /\ warnings[i].path = DottedPath(paths[i])

\* an empty array at the root or directly under a key of the root object;
\* the property is read as properties[key] reads it
DirectEmptyArraysTyped(v, type) ==
  /\ v = JArray(<<>>) => type = ArrayOf(Unknown)
  /\ v.t = "object" =>
       \A i \in 1..Len(v.entries) :
         v.entries[i].val = JArray(<<>>) =>
           ReadProperty(type, v.entries[i].key).type = ArrayOf(Unknown)

\* each empty array of the input, inferred where it stands
EmptyArraysInferred(v, paths, st) ==
  \A i \in 1..Len(paths) : inferType(ValueAt(v, paths[i]), st).type = ArrayOf(Unknown)

\* C21: every empty array of the input, wherever it stands, is inferred as
\* Array(Unknown) and gets one warning about the empty array under the
\* array's own path.
C21_EmptyArrayUnknownWithWarning ==
  Inferred =>
    /\ WarnedInOrder(Messages(inferResult.diagnostics, "Empty array"),
                     ArrayPaths(value, <<>>, TRUE))
    /\ EmptyArraysInferred(value, ArrayPaths(value, <<>>, TRUE), settings)
    /\ DirectEmptyArraysTyped(value, inferResult.type)

\* two empty arrays below the root, one inside an array and one under a key
C21_Witness ==
  /\ Inferred
  /\ Len(ArrayPaths(value, <<>>, TRUE)) = 2
  /\ \E i, j \in 1..2 :
       /\ Len(ArrayPaths(value, <<>>, TRUE)[i]) = 2
       /\ Head(ArrayPaths(value, <<>>, TRUE)[i][2]) = "["
       /\ Len(ArrayPaths(value, <<>>, TRUE)[j]) = 1
       /\ Head(ArrayPaths(value, <<>>, TRUE)[j][1]) # "["
  /\ Len(Messages(inferResult.diagnostics, "Empty array")) = 2

\* the diagnostics about mixed element types, of either wording
MixedWarnings(diags) ==
  SelectSeq(diags, LAMBDA d :
    d.message.text \in { "Mixed element types in array",
                         "Mixed element types (objects and primitives) in array" })

\* the element type inferType gives the array found at a path of the input
ElementTypeAt(v, path, st) == inferType(ValueAt(v, path), st).type.elementType

AllItemsObjects(arr) == \A i \in 1..Len(arr.items) : arr.items[i].t = "object"

WarnedAt(warnings, path) ==
  Cardinality({ i \in 1..Len(warnings) :
                  warnings[i].level = "warning" /\ warnings[i].path = DottedPath(path) })

\* for each non-empty array: one warning if its element type is a Union,
\* none otherwise; all objects give one merged Object
MixedWarnedIffUnion(v, paths, warnings, st) ==
  /\ \A i \in 1..Len(paths) :
       /\ WarnedAt(warnings, paths[i])
            = (IF ElementTypeAt(v, paths[i], st).kind = "union" THEN 1 ELSE 0)
       /\ AllItemsObjects(ValueAt(v, paths[i])) =>
            /\ ElementTypeAt(v, paths[i], st).kind = "object"
            /\ WarnedAt(warnings, paths[i]) = 0
  /\ \A w \in 1..Len(warnings) :
       \E i \in 1..Len(paths) : warnings[w].path = DottedPath(paths[i])

\* C22: for every non-empty array of the input a mixed-element-types warning
\* is pushed exactly when the array's inferred element type is a Union; an
\* array of objects only is an Array of one merged Object, without warning.
C22_MixedWarningIffUnionElement ==
  Inferred =>
    MixedWarnedIffUnion(value, ArrayPaths(value, <<>>, FALSE),
                        MixedWarnings(inferResult.diagnostics), settings)

\* an array below the root whose elements are of two types, none an object,
\* with its warning
C22_Witness ==
  /\ Inferred
  /\ \E i \in 1..Len(ArrayPaths(value, <<>>, FALSE)) :
       /\ ArrayPaths(value, <<>>, FALSE)[i] # <<>>
       /\ ~\E k \in 1..Len(ValueAt(value, ArrayPaths(value, <<>>, FALSE)[i]).items) :
             ValueAt(value, ArrayPaths(value, <<>>, FALSE)[i]).items[k].t = "object"
       /\ ElementTypeAt(value, ArrayPaths(value, <<>>, FALSE)[i], settings).kind = "union"
       /\ WarnedAt(MixedWarnings(inferResult.diagnostics),
                   ArrayPaths(value, <<>>, FALSE)[i]) = 1

----------------------------------------------------------------------------
(* Properties of nullable flags and of structural equality *)

\* the occurrences of a key in the merged objects, in input order: what
\* properties[key] gives for each object that holds something under the key
OccurrencesOf(objects, key) ==
  SelectSeq([i \in 1..Len(objects) |-> ReadProperty(objects[i], key)],
            LAMBDA o : o.held)

OccurrenceTypes(occs) == [i \in 1..Len(occs) |-> occs[i].type]

WithNullVariant(type) ==
  /\ type.kind = "union"
  /\ \E v \in 1..Len(type.variants) : type.variants[v] = Primitive("null")

\* a Union's variants other than null, collapsed
Remainder(variants) ==
  IF Len(SelectSeq(variants, LAMBDA v : v # Primitive("null"))) = 1
  THEN SelectSeq(variants, LAMBDA v : v # Primitive("null"))[1]
  ELSE UnionOf(SelectSeq(variants, LAMBDA v : v # Primitive("null")))

NullableAsMerged(prop, occs, merged) ==
  /\ prop.nullable <=>
       ((\E i \in 1..Len(occs) : occs[i].nullable) \/ WithNullVariant(merged))
  /\ prop.type = (IF WithNullVariant(merged) THEN Remainder(merged.variants)
                  ELSE merged)

ManyObjectsMerged == MergeDone("mergeObjectTypes") /\ Len(mergeIn.objects) >= 2

\* C23: merging N >= 2 objects, a key is nullable exactly when an occurrence
\* of it is nullable or the merged type of its occurrences is a Union with a
\* null variant; then the null variant is removed and the rest collapses
\* (one variant unwrapped, several a Union in the same order).
C23_NullableFromFlagsOrNullVariant ==
  ManyObjectsMerged =>
    \A p \in 1..Len(mergeOut.properties) :
      NullableAsMerged(mergeOut.properties[p],
        OccurrencesOf(mergeIn.objects, mergeOut.properties[p].key),
        mergeTypes(OccurrenceTypes(
          OccurrencesOf(mergeIn.objects, mergeOut.properties[p].key))))

\* no occurrence is nullable, the merged type has a null variant and two
\* others: the key comes out nullable with a Union of the two
C23_Witness ==
  /\ ManyObjectsMerged
  /\ \E p \in 1..Len(mergeOut.properties) :
       /\ mergeOut.properties[p].nullable
       /\ mergeOut.properties[p].type.kind = "union"
       /\ Len(mergeOut.properties[p].type.variants) = 2
       /\ \A i \in 1..Len(OccurrencesOf(mergeIn.objects, mergeOut.properties[p].key)) :
            ~OccurrencesOf(mergeIn.objects, mergeOut.properties[p].key)[i].nullable

\* the same property names, and under each name equal property types
SameNamesAndTypes(x, y) ==
  /\ KeySet(x.properties) = KeySet(y.properties)
  /\ \A k \in KeySet(x.properties) :
       typesEqual(Prop(x.properties, k).type, Prop(y.properties, k).type)

\* an Object without what the comparison is to ignore: every flag cleared
\* and every typeName emptied, at every depth
RECURSIVE Bare(_)
Bare(type) ==
  CASE type.kind = "object" ->
         ObjectOf([i \in 1..Len(type.properties) |->
                     PropertyInfo(type.properties[i].key,
                                  Bare(type.properties[i].type), FALSE, FALSE)],
                  <<>>)
    [] type.kind = "array" -> ArrayOf(Bare(type.elementType))
    [] type.kind = "union" ->
         UnionOf([i \in 1..Len(type.variants) |-> Bare(type.variants[i])])
    [] OTHER -> type

\* the Objects handed to the merge call
ObjectsIn(input) ==
  IF input.op = "mergeTypes"
  THEN SelectSeq(input.types, LAMBDA t : t.kind = "object")
  ELSE input.objects

\* the types a mergeTypes result consists of
ResultTypes(out) == IF out.kind = "union" THEN out.variants ELSE <<out>>

ObjectEqualityByNamesAndTypes(objs) ==
  \A i, j \in 1..Len(objs) :
    /\ typesEqual(objs[i], objs[j]) <=> SameNamesAndTypes(objs[i], objs[j])
    /\ typesEqual(objs[i], objs[j]) = typesEqual(Bare(objs[i]), Bare(objs[j]))
    /\ Bare(objs[i]) = Bare(objs[j]) => typesEqual(objs[i], objs[j])

\* the first of the Objects that differ from the j-th in flags or names only
FirstLike(objs, j) ==
  objs[CHOOSE i \in 1..j :
         /\ Bare(objs[i]) = Bare(objs[j])
         /\ \A h \in 1..(i - 1) : Bare(objs[h]) # Bare(objs[j])]

\* of the Objects that differ only in flags or names the result holds the
\* first one and no other
FirstOfEqualKept(objs, outs) ==
  \A j \in 1..Len(objs) :
    /\ \A o \in 1..Len(outs) :
         Bare(outs[o]) = Bare(objs[j]) => outs[o] = FirstLike(objs, j)
    /\ Cardinality({ o \in 1..Len(outs) : Bare(outs[o]) = Bare(objs[j]) }) = 1

MergeInputGiven ==
  /\ mergeOut # NoResult /\ mergeOut # TypeErrorThrown
  /\ mergeIn.op \in {"mergeTypes", "mergeObjectTypes"}

\* C24: typesEqual holds of two Objects exactly when they have the same
\* property names and equal property types under each name; flags and
\* typeNames do not count, so of two Objects that differ only in those
\* mergeTypes keeps the first.
C24_ObjectEqualityIgnoresFlagsAndNames ==
  MergeInputGiven =>
    /\ ObjectEqualityByNamesAndTypes(ObjectsIn(mergeIn))
    /\ mergeIn.op = "mergeTypes" =>
         FirstOfEqualKept(ObjectsIn(mergeIn), ResultTypes(mergeOut))

\* mergeTypes on two Objects that differ in flags and names only, at the top
\* and in a nested Object: the result is the first
C24_Witness ==
  /\ MergeDone("mergeTypes") /\ Len(mergeIn.types) = 2
  /\ mergeIn.types[1].kind = "object" /\ mergeIn.types[2].kind = "object"
  /\ mergeIn.types[1] # mergeIn.types[2]
  /\ mergeIn.types[1].typeName # mergeIn.types[2].typeName
  /\ \E p \in 1..Len(mergeIn.types[1].properties) :
       mergeIn.types[1].properties[p].type.kind = "object"
  /\ Bare(mergeIn.types[1]) = Bare(mergeIn.types[2])
  /\ mergeOut = mergeIn.types[1]

----------------------------------------------------------------------------
(* Properties of diagnostic paths *)

\* the segment paths of all the values inside a JSON value, itself included
RECURSIVE NodePaths(_, _)
RECURSIVE NodePathsIn(_, _, _)
RECURSIVE NodePathsUnder(_, _, _)
NodePathsIn(items, i, path) ==
  IF i > Len(items) THEN {}
  ELSE NodePaths(items[i], Append(path, <<"[">> \o NumToStr(i - 1) \o <<"]">>))
       \cup NodePathsIn(items, i + 1, path)
NodePathsUnder(entries, i, path) ==
  IF i > Len(entries) THEN {}
  ELSE NodePaths(entries[i].val, Append(path, entries[i].key))
       \cup NodePathsUnder(entries, i + 1, path)
NodePaths(v, path) ==
  {path} \cup
  (CASE v.t = "array"  -> NodePathsIn(v.items, 1, path)
     [] v.t = "object" -> NodePathsUnder(v.entries, 1, path)
     [] OTHER -> {})

\* the dotted/bracketed form: keys separated by dots, an index written
\* directly after the segment it indexes (user.addresses[0].zip)
RECURSIVE Bracketed(_)
Bracketed(path) ==
  IF path = <<>> THEN <<>>
  ELSE IF Len(path) = 1 THEN path[1]
  ELSE IF Head(path[Len(path)]) = "["
  THEN Bracketed(SubSeq(path, 1, Len(path) - 1)) \o path[Len(path)]
  ELSE Bracketed(SubSeq(path, 1, Len(path) - 1)) \o <<".">> \o path[Len(path)]

\* C25: the path of every diagnostic inferType pushes is the dotted/bracketed
\* form of the place it is about, an array index standing directly after its
\* parent segment with no dot before the bracket; the root-scoped diagnostic
\* has the empty path.
C25_PathsDottedBracketed ==
  Inferred =>
    \A i \in 1..Len(inferResult.diagnostics) :
      /\ inferResult.diagnostics[i].path
           \in { Bracketed(p) : p \in NodePaths(value, <<>>) }
      /\ ~Occurs(inferResult.diagnostics[i].path, <<".", "[">>)
      /\ inferResult.diagnostics[i].level = "error"
           => inferResult.diagnostics[i].path = <<>>

----------------------------------------------------------------------------
(* Properties of the example values *)

\* the representative value of a shape that has no parts
ScalarValue(type) ==
  CASE type = Primitive("string")  -> Chars("\"\"")
    [] type = Primitive("number")  -> Chars("0")
    [] type = Primitive("boolean") -> Chars("false")
    [] type = Primitive("null")    -> Chars("null")
    [] type = DateString           -> Chars("\"2025-01-01T00:00:00.000Z\"")
    [] OTHER                       -> Chars("undefined")

\* the variant that stands for a Union: the first that is not null, or the
\* first when all are null
Standing(variants) ==
  IF \A i \in 1..Len(variants) : variants[i] = Primitive("null") THEN variants[1]
  ELSE variants[CHOOSE i \in 1..Len(variants) :
                  /\ variants[i] # Primitive("null")
                  /\ \A j \in 1..(i - 1) : variants[j] = Primitive("null")]

RECURSIVE Indent(_)
Indent(depth) == IF depth = 0 THEN <<>> ELSE <<" ", " ">> \o Indent(depth - 1)

\* the representative value by the per-shape rule, written at a depth
RECURSIVE Representative(_, _, _)
RECURSIVE RepresentativeFields(_, _, _, _)
RepresentativeFields(props, i, enabled, depth) ==
  IF i > Len(props) THEN <<>>
  ELSE Indent(depth + 1) \o ConvertedKey(props[i].key, enabled) \o Chars(": ")
       \o (IF props[i].nullable THEN Chars("null")
           ELSE Representative(props[i].type, enabled, depth + 1))
       \o Chars(",\n")
       \o RepresentativeFields(props, i + 1, enabled, depth)
Representative(type, enabled, depth) ==
  CASE type.kind = "object" ->
         IF type.properties = <<>> THEN Chars("{}")
         ELSE Chars("{\n") \o RepresentativeFields(type.properties, 1, enabled, depth)
              \o Indent(depth) \o Chars("}")
    [] type.kind = "union" -> Representative(Standing(type.variants), enabled, depth)
    [] type.kind = "array" ->
         Chars("[") \o Representative(type.elementType, enabled, depth) \o Chars("]")
    [] OTHER -> ScalarValue(type)

\* a Union without variants stands where the example writes a value: the
\* rule names no value for it
RECURSIVE NoValue(_)
NoValue(type) ==
  CASE type.kind = "union" ->
         type.variants = <<>> \/ NoValue(Standing(type.variants))
    [] type.kind = "array" -> NoValue(type.elementType)
    [] type.kind = "object" ->
         \E i \in 1..Len(type.properties) :
           ~type.properties[i].nullable /\ NoValue(type.properties[i].type)
    [] OTHER -> FALSE

\* the statement of the example that carries the value
ExampleStatement(type, st) ==
  Chars("const example: ") \o st.rootTypeName \o Chars(" = ")
  \o Representative(type, st.snakeToCamel, 0) \o Chars(";")

\* C26: the value generateExample writes follows the per-shape rule: null
\* for every nullable property and the type's representative value for every
\* other, for a Union the value of its first variant that is not null (of the
\* first variant when all are null), for an Array a one-element array of the
\* element's value.
\* and where the rule names no value, a Union without variants standing
\* where the example writes a value, generateExample rejects, and only there.
C26_RepresentativeValueRule ==
  /\ GeneratorDone("generateExample") =>
       /\ ~NoValue(callIn.type)
       /\ Occurs(Emitted,
                 <<"\n">> \o ExampleStatement(callIn.type, callIn.settings) \o <<"\n">>)
  /\ (CallDone("generateExample") /\ callOut.settled = "rejected") =>
       NoValue(callIn.type)

\* an array of a Union that starts with null: the value of the next variant
C26_Witness ==
  /\ GeneratorDone("generateExample")
  /\ callIn.type.kind = "array" /\ callIn.type.elementType.kind = "union"
  /\ callIn.type.elementType.variants[1] = Primitive("null")
  /\ callIn.type.elementType.variants[2] = DateString
  /\ Declared(Emitted,
       Chars("const example: ") \o callIn.settings.rootTypeName
       \o Chars(" = [\"2025-01-01T00:00:00.000Z\"];"))

----------------------------------------------------------------------------
(* Properties of the converter hook over time *)

Invocations == abortRef

\* the latest run is not at its await: it returned early or was resumed
LatestSettled == \A run \in runs : run.runId # abortRef

\* how the latest run left its await, if it did
LatestOutcome(outcome) ==
  \E f \in finished : f.runId = abortRef /\ f.outcome = outcome

\* the result a convert invocation leads to once its generators resolved:
\* each text as its generator made it, pretty-printed or not
GeneratedFor(st, parsed, inferred) ==
  /\ result.typescript.code = RawTypeScript(inferred.type, GenerateSettingsOf(st))
  /\ result.zod.code = RawZod(inferred.type, GenerateSettingsOf(st))
  /\ result.example.code = RawExample(inferred.type, GenerateSettingsOf(st))
  /\ result.diagnostics = parsed.diagnostics \o inferred.diagnostics
  /\ result.isValid
  /\ result.fieldCount = inferred.fieldCount
  /\ result.rootTypeName = st.rootTypeName
  /\ ~result.isProcessing

\* and once a generator rejected
GenerationFailedFor(parsed, inferred) ==
  [EMPTY_RESULT EXCEPT
     !.diagnostics = parsed.diagnostics \o inferred.diagnostics
                     \o <<Diagnostic("error", "Code generation error", <<>>, <<>>)>>]

\* an invocation in which inferType threw has nothing to show
ReflectsInferred(st, parsed, inferred) ==
  IF inferred = TypeErrorThrown THEN FALSE
  ELSE IF LatestOutcome("resolved") THEN GeneratedFor(st, parsed, inferred)
  ELSE result = GenerationFailedFor(parsed, inferred)

ReflectsParsed(st, parsed) ==
  IF parsed.value = JNull
  THEN result = [EMPTY_RESULT EXCEPT !.diagnostics = parsed.diagnostics]
  ELSE ReflectsInferred(st, parsed, inferType(parsed.value, InferSettingsOf(st)))

\* the result state shows the latest invocation, and no run as under way
ReflectsLatest ==
  /\ ~result.isProcessing
  /\ IF Invocations = 0 \/ IsBlank(callIn.input) THEN result = EMPTY_RESULT
     ELSE ReflectsParsed(callIn.currentSettings, parseJSON(callIn.input))

\* C27: when the convert invocations come to an end and every run's
\* generators settle, the result state comes to show the latest invocation
\* (its generated text, its parse diagnostics, or EMPTY_RESULT for blank
\* input) with isProcessing false, and it shows it from the moment the latest
\* run is through until a further invocation.
C27_LatestInvocationWins ==
  /\ [](LatestSettled => ReflectsLatest)
  /\ <>[](LatestSettled /\ ReflectsLatest)

\* the latest invocation is shown although an earlier run was resumed
\* after it
C27_Witness ==
  /\ Invocations = MaxRuns /\ runs = {}
  /\ \E f \in finished : f.runId = 1 /\ f.current = MaxRuns
  /\ LatestOutcome("resolved")
  /\ result.isValid /\ ReflectsLatest

LatestAwaiting == \E run \in runs : run.runId = abortRef

\* C28: result.isProcessing is true exactly while the most recently started
\* convert run is at its await, and the completion of a superseded run
\* leaves isProcessing as it is.
C28_ProcessingIffLatestAwaits ==
  /\ [](result.isProcessing <=> LatestAwaiting)
  /\ [][(Resumed # {} /\ \A run \in Resumed : run.runId # abortRef)
          => result'.isProcessing = result.isProcessing]_vars

\* a superseded run was resumed while the latest run is still at its await:
\* isProcessing is still true
C28_Witness ==
  /\ LatestAwaiting /\ result.isProcessing
  /\ \E f \in finished : f.runId # f.current /\ f.current = abortRef

----------------------------------------------------------------------------
(* Properties of the emitted field identifiers *)

\* how many spaces a line starts with
LeadingSpaces(line) ==
  IF \E i \in 1..Len(line) : line[i] # " "
  THEN (CHOOSE i \in 1..Len(line) :
          line[i] # " " /\ \A j \in 1..(i - 1) : line[j] = " ") - 1
  ELSE Len(line)

\* a line that opens the fields of an Object, and the line that closes them
OpensFields(line) == Len(line) > 0 /\ line[Len(line)] = "{"
ClosesFields(line, depth) ==
  LeadingSpaces(line) = depth /\ Len(line) > depth /\ line[depth + 1] = "}"

\* the break before the line that closes the fields opened after the break b
FieldsEnd(text, b) ==
  IF \E c \in Breaks(text) :
       c > b /\ ClosesFields(LineAfter(text, c), LeadingSpaces(LineAfter(text, b)))
  THEN CHOOSE c \in Breaks(text) :
         /\ c > b
         /\ ClosesFields(LineAfter(text, c), LeadingSpaces(LineAfter(text, b)))
         /\ \A e \in Breaks(text) :
              (b < e /\ e < c) =>
                ~ClosesFields(LineAfter(text, e), LeadingSpaces(LineAfter(text, b)))
  ELSE Len(text) + 1

\* a line one level, of two spaces, inside the fields that does not close a
\* nested value
IsFieldLine(line, depth) ==
  /\ LeadingSpaces(line) = depth + 2
  /\ Len(line) > depth + 2
  /\ line[depth + 3] \notin {"}", "]"}

\* the breaks before the field lines of the Object opened after the break b
FieldBreaks(text, b) ==
  { f \in Breaks(text) :
      /\ b < f /\ f < FieldsEnd(text, b)
      /\ IsFieldLine(LineAfter(text, f), LeadingSpaces(LineAfter(text, b))) }

\* the identifier a field line starts with: up to its first ? or :
FieldIdentifier(line) ==
  SubSeq(line, LeadingSpaces(line) + 1,
         (CHOOSE n \in (LeadingSpaces(line) + 1)..(Len(line) + 1) :
            /\ n = Len(line) + 1 \/ line[n] \in {"?", ":"}
            /\ \A m \in (LeadingSpaces(line) + 1)..(n - 1) : line[m] \notin {"?", ":"})
         - 1)

\* within every Object the text writes out, no two field lines start with
\* the same identifier
IdentifiersDistinct(text) ==
  \A b \in Breaks(text) :
    OpensFields(LineAfter(text, b)) =>
      \A f, g \in FieldBreaks(text, b) :
        f # g => FieldIdentifier(LineAfter(text, f)) # FieldIdentifier(LineAfter(text, g))

KeysDistinct(objs) ==
  \A o \in 1..Len(objs) :
    \A i, j \in 1..Len(objs[o].properties) :
      i # j => objs[o].properties[i].key # objs[o].properties[j].key

\* C29: with snakeToCamel enabled, the field identifiers that
\* generateTypeScript and generateExample emit for one Object are pairwise
\* distinct whenever the property keys of that Object are distinct.
C29_FieldIdentifiersDistinct ==
  ( /\ GeneratorDone("generateTypeScript") \/ GeneratorDone("generateExample")
    /\ callIn.settings.snakeToCamel
    /\ KeysDistinct(NodesOfKind(callIn.type, "object")) )
  => IdentifiersDistinct(Emitted)

\* the same statement with the rewriting of keys switched off
C29_DistinctWithoutRewriting ==
  ( /\ GeneratorDone("generateTypeScript") \/ GeneratorDone("generateExample")
    /\ ~callIn.settings.snakeToCamel
    /\ KeysDistinct(NodesOfKind(callIn.type, "object")) )
  => IdentifiersDistinct(Emitted)

----------------------------------------------------------------------------
(* Properties of mergeTypes under reordering *)

\* the ways to reorder a list of n elements
Orders(n) ==
  { f \in [1..n -> 1..n] : \A i, j \in 1..n : i # j => f[i] # f[j] }

Reordered(xs, f) == [i \in 1..Len(xs) |-> xs[f[i]]]

\* C30: for every list xs and every permutation ys of xs,
\* typesEqual(mergeTypes(xs), mergeTypes(ys)) holds.
C30_MergeOrderInsensitive ==
  MergeDone("mergeTypes") =>
    \A f \in Orders(Len(mergeIn.types)) :
      typesEqual(mergeOut, mergeTypes(Reordered(mergeIn.types, f)))

\* what does hold: reordering the input does not change how many variants
\* the result has
VariantsOf(type) == IF type.kind = "union" THEN type.variants ELSE <<type>>

MergeOrderKeepsVariantCount ==
  MergeDone("mergeTypes") =>
    \A f \in Orders(Len(mergeIn.types)) :
      Len(VariantsOf(mergeOut))
        = Len(VariantsOf(mergeTypes(Reordered(mergeIn.types, f))))

====
